---- MODULE Spec2Model ----
(***************************************************************************)
(* Model of the automancer runtime: the global state manager                *)
(* (host/pr1/state.py), the devices state consumer and its node-lifecycle   *)
(* tasks (units/core/pr1_devices/runner.py), the State block program        *)
(* (units/core/pr1_state/parser.py) and the target value of a node          *)
(* (host/pr1/devices/nodes/value.py).                                       *)
(*                                                                          *)
(* Spec is a run that nothing outside the programs disturbs; SpecDisturbed  *)
(* adds other claim holders, disconnections and a cancellation of a         *)
(* node-lifecycle task.  SpecTree runs the state manager and the devices    *)
(* consumer under a branching tree of handles, SpecSegment a segment         *)
(* program (host/pr1/fiber/segment.py) with its process, SpecBlockState the  *)
(* operators of BlockState (host/pr1/fiber/parser.py) on bounded inputs.     *)
(* SpecFair is Spec with the node-lifecycle tasks scheduled fairly,         *)
(* SpecLoose is Spec with pause and resume called in any mode, SpecNode a   *)
(* ValueNode with its consumer and producer tasks, SpecHost the createDraft *)
(* and startPlan messages of Host (host/pr1/host.py), SpecPump the connect  *)
(* loop of the Runze syringe pump (units/runzepump/pr1_runzepump/device.py).*)
(*                                                                          *)
(* The protocol is a chain  State(1) > State(2) > leaf segment.  Every      *)
(* action is one turn of the asyncio event loop: the code that runs between *)
(* two suspension points, nested synchronous calls included.  Composite     *)
(* handlers are written as operators on a record S of all mutable state;   *)
(* Install(S) assigns the record to the primed variables.                   *)
(*                                                                          *)
(* GlobalStateManager.apply calls consumer.apply(relevant_items) while the  *)
(* devices consumer declares apply(item, items) and reads only              *)
(* item.ancestors(); the call is modelled with item = the origin item, and  *)
(* the dictionary of events the consumer returns is dropped, as at the      *)
(* call site.                                                               *)
(***************************************************************************)
EXTENDS Naturals, Integers, Sequences, FiniteSets, TLC

VARIABLES
  settle,        \* StateBlock.settle of each State block
  nodesOf,       \* node paths set by each block's DevicesState.values
  items,         \* GlobalStateManager._items (handles that have an item)
  itemParent,    \* StateProgramItem.parent (0 = None)
  itemDepth,     \* StateProgramItem.depth
  itemChildren,  \* StateProgramItem.children
  applied,       \* StateProgramItem.applied
  settleEvent,   \* StateProgramItem._settle_event.is_set()
  entry,         \* item.location.entries["devices"]: "None" | "unsettled" | "settled"
  itemNodes,     \* DevicesStateItemInfo.nodes
  candidates,    \* DevicesStateNodeInfo.candidates
  current,       \* DevicesStateNodeInfo.current_candidate
  nodeSettled,   \* DevicesStateNodeInfo.settled
  claim,         \* DevicesStateNodeInfo.claim: "none" | "pending" | "granted"
  task,          \* position of the node's _node_lifecycle task
  updateEvent,   \* DevicesStateNodeInfo.update_event: "none" | "clear" | "set"
  updatedNodes,  \* DevicesStateManager._updated_nodes
  writes,        \* values passed to node.write, in order, per node
  mode,          \* StateProgram._mode
  modeLog,       \* every value assigned to _mode, in order
  runPc,         \* position of StateProgram.run
  pausePc,       \* position of StateProgram.pause
  resumePc,      \* position of StateProgram.resume
  resumeLoose,   \* the loose argument of the resume in progress
  applyWait,     \* item whose settle event the program's apply() awaits (0 = none)
  applyWoken,    \* the awaited settle event has fired
  leaf,          \* the leaf segment program under State(2)
  received,      \* the program accepted a pause, resume or halt
  suspendCalls,  \* number of state_manager.suspend calls per handle
  removeCalls,   \* number of state_manager.remove calls per handle
  pauses,        \* client pause requests issued so far
  resumes,       \* client resume requests issued so far
  childAt,       \* what the item looked like when the program created its child
  rival,         \* another holder's higher-priority claim is live on the node
  lost,          \* claim.lost() of the manager's claim has fired
  connected,     \* ValueNode.connected
  target,        \* ValueNode._target_value (0 = Null)
  device,        \* the value the device last received through _write (0 = none)
  lastDone,      \* value of the last node.write that returned to the task (0 = none)
  toggles,       \* changes of the item's settle event since it was marked applied
  cancelledAt,   \* where the node's task was when it was cancelled
  faults,        \* disturbances so far: rival claims, disconnections, cancellations
  unselected,    \* nodes that a remove left without current candidate although an
                 \* applied candidate remained
  assigned,      \* values assigned to current_candidate, in order, per node
  lastCall,      \* the last pause or resume called from outside the program tree
  sent,          \* the mode in the last location the program sent to its handle
  lastRecord,    \* the last StateRecord passed to the item's _update_program:
                 \* "none" | "changed" | "same" (item.settled against the value
                 \* before the notification)
  tree,          \* the state manager and the devices consumer under a branching
                 \* tree of handles (SpecTree)
  segment,       \* a SegmentProgram, its process and its state instance (SpecSegment)
  blockState,    \* two BlockState operands and the outcome of an operator (SpecBlockState)
  node,          \* a ValueNode with its consumer and producer tasks (SpecNode)
  host,          \* a Host with its chips and drafts (SpecHost)
  pump           \* a RunzeSyringePumpDevice and its nodes (SpecPump)

progVars == <<settle, nodesOf, items, itemParent, itemDepth, itemChildren, applied,
          settleEvent, entry, itemNodes, candidates, current, nodeSettled, claim,
          task, updateEvent, updatedNodes, writes, mode, modeLog, runPc, pausePc,
          resumePc, resumeLoose, applyWait, applyWoken, leaf, received,
          suspendCalls, removeCalls, pauses, resumes, childAt, rival, lost,
          connected, target, device, lastDone, toggles, cancelledAt, faults,
          unselected, assigned, lastRecord, sent, lastCall>>

vars == <<progVars, tree, segment, blockState, node, host, pump>>

----------------------------------------------------------------------------
\* Bounds and fixed structure

MaxPauses == 1
MaxResumes == 2
MaxFaults == 1

Progs == {1, 2}
LastProg == CHOOSE p \in Progs : \A q \in Progs : q <= p
Nodes == {"valve", "pump"}

\* The handle above a program's handle (0 = the master).
HandleParent(h) == h - 1

\* The value a block sets on its nodes: the outer block 1, the inner block 2.
BlockValue(p) == p

NoCand == [item |-> 0, value |-> 0]

NoCall == [op |-> "none", prog |-> 0, loose |-> FALSE, res |-> "none"]

Cur == [items |-> items, itemParent |-> itemParent, itemDepth |-> itemDepth,
        itemChildren |-> itemChildren, applied |-> applied,
        settleEvent |-> settleEvent, entry |-> entry, itemNodes |-> itemNodes,
        candidates |-> candidates, current |-> current,
        nodeSettled |-> nodeSettled, claim |-> claim, task |-> task,
        updateEvent |-> updateEvent, updatedNodes |-> updatedNodes,
        writes |-> writes, mode |-> mode, modeLog |-> modeLog, runPc |-> runPc,
        pausePc |-> pausePc, resumePc |-> resumePc, resumeLoose |-> resumeLoose,
        applyWait |-> applyWait, applyWoken |-> applyWoken, leaf |-> leaf,
        received |-> received, suspendCalls |-> suspendCalls,
        removeCalls |-> removeCalls, pauses |-> pauses, resumes |-> resumes,
        childAt |-> childAt, rival |-> rival, lost |-> lost,
        connected |-> connected, target |-> target, device |-> device,
        lastDone |-> lastDone, toggles |-> toggles, cancelledAt |-> cancelledAt,
        faults |-> faults, unselected |-> unselected, assigned |-> assigned,
        lastRecord |-> lastRecord, sent |-> sent, lastCall |-> lastCall]

InstallRec(S) ==
  /\ items' = S.items /\ itemParent' = S.itemParent /\ itemDepth' = S.itemDepth
  /\ itemChildren' = S.itemChildren /\ applied' = S.applied
  /\ settleEvent' = S.settleEvent /\ entry' = S.entry /\ itemNodes' = S.itemNodes
  /\ candidates' = S.candidates /\ current' = S.current
  /\ nodeSettled' = S.nodeSettled /\ claim' = S.claim /\ task' = S.task
  /\ updateEvent' = S.updateEvent /\ updatedNodes' = S.updatedNodes
  /\ writes' = S.writes /\ mode' = S.mode /\ modeLog' = S.modeLog
  /\ runPc' = S.runPc /\ pausePc' = S.pausePc /\ resumePc' = S.resumePc
  /\ resumeLoose' = S.resumeLoose /\ applyWait' = S.applyWait
  /\ leaf' = S.leaf /\ received' = S.received
  /\ suspendCalls' = S.suspendCalls /\ removeCalls' = S.removeCalls
  /\ pauses' = S.pauses /\ resumes' = S.resumes /\ childAt' = S.childAt
  /\ rival' = S.rival /\ lost' = S.lost /\ connected' = S.connected
  /\ target' = S.target /\ device' = S.device /\ lastDone' = S.lastDone
  /\ toggles' = S.toggles /\ cancelledAt' = S.cancelledAt
  /\ faults' = S.faults /\ unselected' = S.unselected
  /\ assigned' = S.assigned /\ lastRecord' = S.lastRecord /\ sent' = S.sent
  /\ lastCall' = S.lastCall
  \* Event.set() wakes the waiter of the event; it resumes on a later turn.
  /\ applyWoken' = [p \in Progs |->
        S.applyWait[p] # 0 /\ (S.applyWoken[p] \/ S.settleEvent[S.applyWait[p]])]
  /\ UNCHANGED <<settle, nodesOf, tree, segment, blockState, node, host, pump>>

\* The record is evaluated once, then assigned.
Install(S) == \E T \in {S} : InstallRec(T)

----------------------------------------------------------------------------
\* StateProgramItem (host/pr1/state.py)

RECURSIVE AncestorAt(_, _, _)
\* next(islice(other.ancestors(), k, None)): the k-th item on other's parent chain.
AncestorAt(S, i, k) ==
  IF i = 0 THEN 0
  ELSE IF k = 0 THEN i
  ELSE AncestorAt(S, S.itemParent[i], k - 1)

\* StateProgramItem.__lt__: a < b iff a is a strict ancestor of b.
ItemLt(S, a, b) ==
  /\ S.itemDepth[b] - S.itemDepth[a] > 0
  /\ AncestorAt(S, b, S.itemDepth[b] - S.itemDepth[a]) = a

\* StateProgramItem.__eq__: neither item is a strict ancestor of the other.
ItemEq(S, a, b) == ~ItemLt(S, a, b) /\ ~ItemLt(S, b, a)

RECURSIVE ListRemove(_, _, _)
\* list.remove(x): the first element that is x or compares equal to x goes.
ListRemove(S, list, x) ==
  IF list = <<>> THEN <<>>
  ELSE IF Head(list) = x \/ ItemEq(S, Head(list), x) THEN Tail(list)
  ELSE <<Head(list)>> \o ListRemove(S, Tail(list), x)

RECURSIVE Ancestors(_, _)
\* StateProgramItem.ancestors(): the item, its parent, ... up to the root item.
Ancestors(S, i) ==
  IF i = 0 THEN <<>> ELSE <<i>> \o Ancestors(S, S.itemParent[i])

SeqRange(s) == {s[k] : k \in 1..Len(s)}

----------------------------------------------------------------------------
\* GlobalStateManager._handle_event and DevicesStateItemInfo

\* A _handle_event that stores the entry and leaves the settle event alone.
HandleEventEntryOnly(S, i, isSettled) ==
  [S EXCEPT !.entry[i] = IF isSettled THEN "settled" ELSE "unsettled"]

\* A _handle_event that clears the settle event of an item already settled.
HandleEventFlips(S, i, isSettled) ==
  [S EXCEPT !.entry[i] = IF isSettled /\ ~S.settleEvent[i]
                         THEN "settled" ELSE "unsettled",
            !.settleEvent[i] = isSettled /\ ~S.settleEvent[i],
            !.toggles[i] = IF S.settleEvent[i] \/ isSettled
                           THEN S.toggles[i] + 1 ELSE S.toggles[i]]

\* _handle_event with one namespace ("devices"): the entry is created or its
\* settled flag overwritten; the settle event is set iff every entry is settled.
HandleEvent(S, i, isSettled) ==
  [S EXCEPT !.entry[i] = IF isSettled THEN "settled" ELSE "unsettled",
            !.settleEvent[i] = isSettled,
            !.toggles[i] = IF S.settleEvent[i] # isSettled
                           THEN S.toggles[i] + 1 ELSE S.toggles[i],
            !.lastRecord[i] = IF S.settleEvent[i] # isSettled
                              THEN "changed" ELSE "same",
            !.sent[i] = S.mode[i]]

\* DevicesStateItemInfo.is_settled
IsSettled(S, i) ==
  \A n \in S.itemNodes[i] : S.current[n].item = i => S.nodeSettled[n]

\* DevicesStateItemInfo.do_notify
DoNotify(S, i) == HandleEvent(S, i, IsSettled(S, i))

----------------------------------------------------------------------------
\* DevicesStateManager (units/core/pr1_devices/runner.py)

RECURSIVE BisectLeft(_, _, _, _, _)
\* bisect.bisect_left(a, x, key=item) with lo, hi 0-based: binary search using
\* key(a[mid]) < x, where < is StateProgramItem.__lt__.
BisectLeft(S, a, x, lo, hi) ==
  IF lo < hi
  THEN LET mid == (lo + hi) \div 2
       IN IF ItemLt(S, a[mid + 1].item, x)
          THEN BisectLeft(S, a, x, mid + 1, hi)
          ELSE BisectLeft(S, a, x, lo, mid)
  ELSE lo

\* bisect.insort_left(node_info.candidates, candidate, key=item)
InsortLeft(S, a, c) ==
  LET k == BisectLeft(S, a, c.item, 0, Len(a))
  IN SubSeq(a, 1, k) \o <<c>> \o SubSeq(a, k + 1, Len(a))

\* DevicesStateManager.add: one candidate per node of the block's state, and the
\* nodes join _updated_nodes.
DevicesAdd(S, i) ==
  [S EXCEPT !.itemNodes[i] = nodesOf[i],
            !.candidates = [n \in Nodes |->
               IF n \in nodesOf[i]
               THEN InsortLeft(S, S.candidates[n], [item |-> i, value |-> BlockValue(i)])
               ELSE S.candidates[n]],
            !.updatedNodes = S.updatedNodes \cup nodesOf[i]]

\* DevicesStateManager.remove: the item's candidates are dropped, a node whose
\* current candidate was the item's has it set to None, the nodes join
\* _updated_nodes.
DevicesRemove(S, i) ==
  [S EXCEPT !.candidates = [n \in Nodes |->
               IF n \in S.itemNodes[i]
               THEN SelectSeq(S.candidates[n], LAMBDA c : c.item # i)
               ELSE S.candidates[n]],
            !.current = [n \in Nodes |->
               IF n \in S.itemNodes[i] /\ S.current[n].item = i
               THEN NoCand ELSE S.current[n]],
            !.updatedNodes = S.updatedNodes \cup S.itemNodes[i],
            !.itemNodes[i] = {},
            !.unselected = S.unselected \cup
               {n \in S.itemNodes[i] :
                  /\ S.current[n].item = i
                  /\ \E k \in 1..Len(S.candidates[n]) :
                        S.candidates[n][k].item # i /\ S.applied[S.candidates[n][k].item]}]

\* The unapplied items among item.ancestors().
RelevantItems(S, i) == {a \in SeqRange(Ancestors(S, i)) : ~S.applied[a]}

RECURSIVE LastEligible(_, _, _, _)
\* next(candidate for candidate in candidates[::-1] if applied or relevant, None)
LastEligible(S, a, relevant, k) ==
  IF k = 0 THEN NoCand
  ELSE IF S.applied[a[k].item] \/ a[k].item \in relevant THEN a[k]
  ELSE LastEligible(S, a, relevant, k - 1)

NewCandidate(S, n, relevant) ==
  LastEligible(S, S.candidates[n], relevant, Len(S.candidates[n]))

\* node.claim(): the new claim is granted at once unless a higher-priority
\* claim is live on the node.
NewClaim(S, n) == IF S.rival[n] THEN "pending" ELSE "granted"

\* node_info.current_candidate = new_candidate
SetCurrent(S, n, new) ==
  [S EXCEPT !.current[n] = new,
            !.assigned[n] = IF S.current[n] # new /\ new # NoCand THEN Append(@, new.value) ELSE @]

\* One turn of apply's loop over _updated_nodes.
ApplyNode(S, n, relevant) ==
  LET new == NewCandidate(S, n, relevant)
      S1 == IF S.current[n] # new /\ S.current[n] # NoCand
            THEN DoNotify(S, S.current[n].item) ELSE S
      S2 == SetCurrent(S1, n, new)
      S3 == IF S2.claim[n] = "none" THEN [S2 EXCEPT !.claim[n] = NewClaim(S, n)] ELSE S2
  IN IF S3.task[n] = "none"
     THEN [S3 EXCEPT !.task[n] = "created", !.updateEvent[n] = "clear"]
     ELSE S3

RECURSIVE ApplyNodes(_, _, _, _)
ApplyNodes(S, order, relevant, todo) ==
  IF order = <<>> THEN S
  ELSE IF Head(order) \in todo
       THEN ApplyNodes(ApplyNode(S, Head(order), relevant), Tail(order), relevant, todo)
       ELSE ApplyNodes(S, Tail(order), relevant, todo)

\* DevicesStateManager.apply(item, items).  order is the iteration order of the
\* set _updated_nodes.
DevicesApply(S, i, order) ==
  LET S1 == ApplyNodes(S, order, RelevantItems(S, i), S.updatedNodes)
  IN [S1 EXCEPT !.updatedNodes = {}]

\* The iteration orders of a set of nodes.
Orders == {o \in [1..Cardinality(Nodes) -> Nodes] : \A n \in Nodes : \E k \in DOMAIN o : o[k] = n}

----------------------------------------------------------------------------
\* GlobalStateManager (host/pr1/state.py)

RECURSIVE WalkUp(_, _)
\* add's loop: climb the parent handles until one has an item.
WalkUp(S, h) ==
  IF HandleParent(h) = 0 THEN h
  ELSE IF HandleParent(h) \in S.items THEN HandleParent(h)
  ELSE WalkUp(S, HandleParent(h))

\* GlobalStateManager.add
GlobalAdd(S, h) ==
  LET top == WalkUp(S, h)
      par == IF top # h THEN top ELSE 0
      S1 == [S EXCEPT !.items = S.items \cup {h},
                      !.itemParent[h] = par,
                      !.itemDepth[h] = IF par # 0 THEN S.itemDepth[par] + 1 ELSE 0,
                      !.itemChildren = [i \in Progs |->
                          IF i = par THEN Append(S.itemChildren[i], h)
                          ELSE IF i = h THEN <<>> ELSE S.itemChildren[i]],
                      !.applied[h] = FALSE,
                      !.settleEvent[h] = FALSE,
                      !.entry[h] = "None"]
  IN DevicesAdd(S1, h)

\* GlobalStateManager.remove.  The handle has an item whenever run calls it.
GlobalRemove(S, h) ==
  LET S1 == DevicesRemove(S, h)
      par == S.itemParent[h]
  IN [S1 EXCEPT !.itemChildren = [i \in Progs |->
                    IF i = par THEN ListRemove(S1, S1.itemChildren[i], h)
                    ELSE S1.itemChildren[i]],
                !.items = S1.items \ {h},
                !.removeCalls[h] = S1.removeCalls[h] + 1]

RECURSIVE OriginItem(_, _)
\* apply's loop: the item of the handle or of its nearest ancestor handle.
OriginItem(S, h) ==
  IF h = 0 THEN 0
  ELSE IF h \in S.items THEN h
  ELSE OriginItem(S, HandleParent(h))

RECURSIVE FirstUnset(_, _)
\* for item in origin_item.ancestors(): await item._settle_event.wait()
\* The first item on the chain whose settle event is not set (0 = none left).
FirstUnset(S, i) ==
  IF i = 0 THEN 0
  ELSE IF S.settleEvent[i] THEN FirstUnset(S, S.itemParent[i])
  ELSE i

\* GlobalStateManager.apply up to its first suspension.  status: "none" (returned
\* None), "raise" (AssertionError), "wait" (awaiting a settle event), "done".
GlobalApply(S, h, terminal, order) ==
  LET origin == OriginItem(S, h)
  IN IF origin = 0 \/ S.applied[origin]
     THEN [st |-> S, status |-> IF terminal THEN "none" ELSE "raise"]
     ELSE LET relevant == RelevantItems(S, origin)
              S1 == DevicesApply(S, origin, order)
              S2 == [S1 EXCEPT !.applied = [i \in Progs |->
                                   IF i \in relevant THEN TRUE ELSE @[i]],
                               !.toggles = [i \in Progs |->
                                   IF i \in relevant THEN 0 ELSE @[i]]]
              w == FirstUnset(S2, origin)
          IN [st |-> [S2 EXCEPT !.applyWait[h] = w, !.applyWoken[h] = FALSE],
              status |-> IF w = 0 THEN "done" ELSE "wait"]

\* A suspend that only clears item.applied.
GlobalSuspendAppliedOnly(S, h) ==
  [st |-> [S EXCEPT !.suspendCalls[h] = S.suspendCalls[h] + 1,
                    !.applied[h] = FALSE],
   ok |-> h \in S.items /\ S.applied[h]]

\* GlobalStateManager.suspend.  ok = FALSE when it raises (no item for the handle,
\* assert item.applied, assert entry); what it changed before raising stays.
GlobalSuspend(S, h) ==
  LET S0 == [S EXCEPT !.suspendCalls[h] = S.suspendCalls[h] + 1]
  IN IF h \notin S.items \/ ~S.applied[h]
     THEN [st |-> S0, ok |-> FALSE]
     ELSE LET S1 == [S0 EXCEPT !.applied[h] = FALSE, !.settleEvent[h] = FALSE]
          IN IF S1.entry[h] = "None"
             THEN [st |-> S1, ok |-> FALSE]
             ELSE \* DevicesStateManager.suspend only returns an event with an
                  \* empty location and settled = False.
                  [st |-> [HandleEvent([S1 EXCEPT !.entry[h] = "unsettled"], h, FALSE)
                             EXCEPT !.toggles[h] = 0],
                   ok |-> TRUE]

----------------------------------------------------------------------------
\* StateProgram (units/core/pr1_state/parser.py)

\* The _mode setter: the mode is stored and logged.
SetMode(S, p, m) == [S EXCEPT !.mode[p] = m, !.modeLog[p] = Append(S.modeLog[p], m)]

\* self._mode = m; self._handle.send(ProgramExecEvent(location=self._location))
SendMode(S, p, m) == [SetMode(S, p, m) EXCEPT !.sent[p] = m]

\* A run that suspends the state whatever the mode.
SuspendAlways(m) == TRUE

\* run: the modes in which the returned child leaves the state still to suspend.
SuspendNeeded(m) == m \notin {"HaltingChildWhilePaused", "Paused"}

\* A resume that applies the state again only for a settle block.
ResumeSettleOnly(p, loose) == settle[p]

\* resume: the condition under which the state is applied again.
ResumeNeedsApply(p, loose) == settle[p] \/ ~loose

\* A halt with its two modes exchanged.
HaltModeSwapped(m) ==
  IF m = "Normal" THEN "HaltingChildWhilePaused" ELSE "HaltingChildThenState"

\* halt: the mode entered from Normal and from Paused.
HaltMode(m) ==
  IF m = "Normal" THEN "HaltingChildThenState" ELSE "HaltingChildWhilePaused"

\* An exception leaving run propagates through every awaiting ancestor's run.
RunRaise(S, p) ==
  [S EXCEPT !.runPc = [q \in Progs |-> IF q <= p /\ S.runPc[q] # "done"
                                       THEN "failed" ELSE S.runPc[q]]]

Aborted == \E p \in Progs : runPc[p] = "failed"

RECURSIVE RunPrologue(_, _, _)
RECURSIVE StartChild(_, _, _)

\* run after the state has been added and (if settle) applied: mode Normal, then
\* create_child and the child's run up to its first suspension.
RunAfterApply(S, p, order) ==
  StartChild([SendMode(S, p, "Normal") EXCEPT !.runPc[p] = "child",
                                              !.applyWait[p] = 0], p, order)

\* handle.create_child(block) and the start of owner.run(stack).
StartChild(S, p, order) ==
  LET S1 == [S EXCEPT !.childAt[p] =
                IF S.applied[p] /\ S.settleEvent[p] THEN "settled" ELSE "unsettled"]
  IN IF p < LastProg THEN RunPrologue(S1, p + 1, order)
     ELSE [S1 EXCEPT !.leaf = "running"]

\* A run that does not await apply before it creates its child.
RunPrologueNoWait(S, p, order) ==
  LET S1 == GlobalAdd(S, p)
  IN IF settle[p]
     THEN RunAfterApply(GlobalApply(SetMode(S1, p, "ApplyingState"), p, FALSE, order).st,
                        p, order)
     ELSE StartChild([SetMode(S1, p, "Normal") EXCEPT !.runPc[p] = "child"], p, order)

\* run from its first line to its first suspension.
RunPrologue(S, p, order) ==
  LET S1 == GlobalAdd(S, p)
  IN IF settle[p]
     THEN LET r == GlobalApply(SetMode(S1, p, "ApplyingState"), p, FALSE, order)
          IN CASE r.status = "wait" -> [r.st EXCEPT !.runPc[p] = "applying"]
               [] r.status = "done" -> RunAfterApply(r.st, p, order)
               [] OTHER -> RunRaise(r.st, p)
     ELSE StartChild([SetMode(S1, p, "Normal") EXCEPT !.runPc[p] = "child"], p, order)

\* run after the child has returned.
RunEpilogue(S, p) ==
  LET S1 == IF SuspendNeeded(S.mode[p])
            THEN GlobalSuspend(SetMode(S, p, "SuspendingState"), p)
            ELSE [st |-> S, ok |-> TRUE]
  IN IF ~S1.ok THEN RunRaise(S1.st, p)
     ELSE [SendMode(GlobalRemove(S1.st, p), p, "Terminated") EXCEPT !.runPc[p] = "done"]

RECURSIVE ChildReturned(_, _)
\* The child's run has returned to the awaiting run of p: the return travels up
\* the chain of awaiting runs within the same turn of the event loop.
ChildReturned(S, p) ==
  IF p = 0 THEN S
  ELSE LET S1 == RunEpilogue(S, p)
       IN IF S1.runPc[p] = "done" THEN ChildReturned(S1, HandleParent(p)) ELSE S1

\* The child of p has reached a paused mode or has returned.
ChildPausedOrGone(S, p) ==
  IF p < LastProg
  THEN S.mode[p + 1] = "Paused" \/ S.runPc[p + 1] = "done"
  ELSE S.leaf \in {"paused", "done"}

\* pause after pause_children has returned.
PauseFinish(S, p) ==
  LET r == GlobalSuspend(SendMode(S, p, "PausingState"), p)
  IN IF r.ok THEN [SendMode(r.st, p, "Paused") EXCEPT !.pausePc[p] = "idle"]
     ELSE [r.st EXCEPT !.pausePc[p] = "raised"]

RECURSIVE PauseBegin(_, _)
RECURSIVE Pause(_, _, _)
\* handle.pause_children(): a loose pause is passed to the child.
PauseChildren(S, p) ==
  IF p < LastProg
  THEN Pause(S, p + 1, TRUE).st
  ELSE IF S.leaf = "running" THEN [S EXCEPT !.leaf = "pausing"] ELSE S

\* pause on a program in mode Normal, up to its first suspension.
PauseBegin(S, p) ==
  LET S1 == [SendMode(S, p, "PausingChild") EXCEPT !.received[p] = TRUE]
      S2 == PauseChildren(S1, p)
  IN IF ChildPausedOrGone(S2, p) THEN PauseFinish(S2, p)
     ELSE [S2 EXCEPT !.pausePc[p] = "children"]

\* A pause that goes ahead whatever the mode.
PauseAnyMode(S, p, loose) == [st |-> PauseBegin(S, p), res |-> "began"]

\* pause(loose): outside mode Normal a loose pause returns at once and a strict
\* one raises AssertionError.
Pause(S, p, loose) ==
  IF S.mode[p] # "Normal"
  THEN [st |-> S, res |-> IF loose THEN "returned" ELSE "AssertionError"]
  ELSE [st |-> PauseBegin(S, p), res |-> "began"]

RECURSIVE HaltBegin(_, _)
\* owner.halt(): the halt is passed to the child program; a State child raises
\* unless its mode is Normal or Paused.
HaltChild(S, p) ==
  IF p < LastProg
  THEN IF S.mode[p + 1] \in {"Normal", "Paused"} THEN HaltBegin(S, p + 1) ELSE S
  ELSE IF S.leaf \in {"running", "paused"} THEN [S EXCEPT !.leaf = "halting"] ELSE S

\* halt on a program in mode Normal or Paused; when the child's halt raises, the
\* program's own mode has already changed.
HaltBegin(S, p) ==
  HaltChild([SendMode(S, p, HaltMode(S.mode[p])) EXCEPT !.received[p] = TRUE], p)

RECURSIVE ResumeAfterParent(_, _, _)
RECURSIVE ResumeDone(_, _, _)

\* resume has set mode Normal: a child awaiting resume_parent proceeds.
ResumeDone(S, p, order) ==
  LET S1 == [SendMode(S, p, "Normal") EXCEPT !.resumePc[p] = "idle", !.applyWait[p] = 0]
  IN IF p < LastProg
     THEN IF S1.resumePc[p + 1] = "parent"
          THEN ResumeAfterParent(S1, p + 1, order).st ELSE S1
     ELSE IF S1.leaf = "resuming" THEN [S1 EXCEPT !.leaf = "running"] ELSE S1

\* resume after resume_parent has succeeded.  res: "ok" | "raised" | "pending".
ResumeAfterParent(S, p, order) ==
  IF ResumeNeedsApply(p, S.resumeLoose[p])
  THEN LET r == GlobalApply(SetMode(S, p, "ResumingState"), p, ~S.resumeLoose[p], order)
       IN CASE r.status = "wait" ->
                 [st |-> [r.st EXCEPT !.resumePc[p] = "applying"], res |-> "pending"]
            [] r.status = "raise" ->
                 [st |-> [r.st EXCEPT !.resumePc[p] = "raised"], res |-> "raised"]
            [] OTHER -> [st |-> ResumeDone(r.st, p, order), res |-> "ok"]
  ELSE [st |-> ResumeDone(S, p, order), res |-> "ok"]

\* handle.resume_parent(): succeeds at once under the master or a parent in mode
\* Normal, passes a loose resume to a parent in mode Paused, and fails otherwise.
ResumeParentCase(S, p) ==
  LET q == HandleParent(p)
  IN IF q = 0 \/ S.mode[q] = "Normal" THEN "ok"
     ELSE IF S.mode[q] = "Paused" THEN "resume" ELSE "fail"

RECURSIVE ResumeBegin(_, _, _, _)
\* resume on a program in mode Paused, up to its first suspension.
ResumeBegin(S, p, loose, order) ==
  LET S1 == [SendMode(S, p, "Resuming") EXCEPT !.received[p] = TRUE,
                                               !.resumeLoose[p] = loose]
      q == HandleParent(p)
      restore == [st |-> [SetMode(S1, p, "Paused") EXCEPT !.resumePc[p] = "idle"],
                  res |-> "raised"]
  IN IF ResumeParentCase(S1, p) = "ok" THEN ResumeAfterParent(S1, p, order)
     ELSE IF ResumeParentCase(S1, p) = "resume"
     THEN LET r == ResumeBegin(S1, q, TRUE, order)
          IN CASE r.res = "ok" -> ResumeAfterParent(r.st, p, order)
               [] r.res = "pending" ->
                    [st |-> [r.st EXCEPT !.resumePc[p] = "parent"], res |-> "pending"]
               [] OTHER ->
                    [st |-> [SetMode(r.st, p, "Paused") EXCEPT !.resumePc[p] = "idle"],
                     res |-> "raised"]
     ELSE restore

\* A resume that goes ahead whatever the mode.
ResumeAnyMode(S, p, loose, order) == ResumeBegin(S, p, loose, order)

\* resume(loose): outside mode Paused a loose resume returns at once and a
\* strict one raises AssertionError.
Resume(S, p, loose, order) ==
  IF S.mode[p] # "Paused"
  THEN [st |-> S, res |-> IF loose THEN "returned" ELSE "AssertionError"]
  ELSE ResumeBegin(S, p, loose, order)

----------------------------------------------------------------------------
\* Node-lifecycle task (DevicesStateManager._node_lifecycle) and ValueNode

\* ValueNode.write up to its suspension in _write: the target value is recorded.
WriteCall(S, n, v) ==
  [S EXCEPT !.target[n] = v, !.writes[n] = Append(S.writes[n], v)]

\* ValueNode.write returns: the device has received the value if the node is
\* connected; NodeUnavailableError is swallowed.
WriteReturn(S, n) ==
  [S EXCEPT !.device[n] = IF S.connected[n] THEN S.target[n] ELSE S.device[n],
            !.lastDone[n] = S.target[n]]

\* ValueNode._target_reached
TargetReached(S, n) == S.device[n] = S.target[n]

\* A _configure that reads the node and writes nothing.
ConfigureReadOnly(S, n) == S

\* ValueNode._configure, run when the node (re)connects.
Configure(S, n) ==
  IF TargetReached(S, n) THEN S ELSE [S EXCEPT !.device[n] = S.target[n]]

\* A race that never reports the loss of the claim.
RaceLostNever(S, n) == FALSE

\* The race was won by claim.lost() (race_index == 0).
RaceLost(S, n) == S.lost[n]

\* A loop head that writes the value of the other block.
LoopHeadOtherValue(S, n) ==
  IF S.current[n] # NoCand
  THEN [WriteCall(S, n, (S.current[n].value % 2) + 1) EXCEPT !.task[n] = "write"]
  ELSE [S EXCEPT !.task[n] = "race"]

\* Head of the inner loop: start writing the current candidate's value, or go
\* straight to the race when there is no current candidate.
LoopHead(S, n) ==
  IF S.current[n] # NoCand
  THEN [WriteCall(S, n, S.current[n].value) EXCEPT !.task[n] = "write"]
  ELSE [S EXCEPT !.task[n] = "race"]

\* await claim.wait(): the inner loop starts in the turn in which the claim is
\* found granted; otherwise the task waits.
AwaitClaim(S, n) ==
  IF S.claim[n] = "granted"
  THEN LoopHead([S EXCEPT !.lost[n] = FALSE], n)
  ELSE [S EXCEPT !.task[n] = "waitclaim"]

\* The task's first turn, or its wake-up once the awaited claim is granted.
LifecycleClaim(n) ==
  /\ task[n] \in {"created", "waitclaim"}
  /\ task[n] = "created" \/ claim[n] = "granted"
  /\ Install(AwaitClaim(Cur, n))

\* The race has ended: on the loss of the claim the inner loop is left and the
\* claim awaited again, on update_event the event is cleared and the loop goes on.
LifecycleLoop(n) ==
  /\ task[n] = "race"
  /\ lost[n] \/ updateEvent[n] = "set"
  /\ Install(IF RaceLost(Cur, n) THEN AwaitClaim(Cur, n)
             ELSE LoopHead([Cur EXCEPT !.updateEvent[n] = "clear"], n))

\* node.write has returned: the node is settled and the current candidate's item
\* is notified.  With no current candidate left the attribute access raises, the
\* task ends and its finally clause destroys the claim.
LifecycleWritten(n) ==
  /\ task[n] = "write"
  /\ LET S1 == [WriteReturn(Cur, n) EXCEPT !.nodeSettled[n] = TRUE]
     IN IF S1.current[n] = NoCand
        THEN Install([S1 EXCEPT !.task[n] = "dead", !.claim[n] = "destroyed"])
        ELSE Install([DoNotify(S1, S1.current[n].item) EXCEPT !.task[n] = "race"])

\* A finally clause that leaves the claim alone.
FinallyKeepsClaim(S, n) == S

\* The finally clause of _node_lifecycle: node_info.claim.destroy().
Finally(S, n) == [S EXCEPT !.claim[n] = "destroyed"]

\* The task is cancelled.  CancelledError raised inside the try block runs the
\* finally clause, which destroys the claim; a task cancelled before its first
\* turn never enters the try block.  A cancellation is the last disturbance of
\* a run.
CancelTask(n) ==
  /\ faults <= MaxFaults
  /\ task[n] \in {"created", "waitclaim", "write", "race"}
  /\ LET S1 == [Cur EXCEPT !.faults = MaxFaults + 1,
                            !.cancelledAt[n] = task[n],
                            !.task[n] = "cancelled"]
     IN Install(IF task[n] = "created" THEN S1 ELSE Finally(S1, n))

\* Another holder takes a higher-priority claim on the node: a granted claim of
\* the state manager is preempted.
RivalClaim(n) ==
  /\ faults < MaxFaults
  /\ ~rival[n]
  /\ Install([Cur EXCEPT !.faults = faults + 1,
                         !.rival[n] = TRUE,
                         !.lost[n] = lost[n] \/ claim[n] = "granted",
                         !.claim[n] = IF claim[n] = "granted" THEN "pending"
                                      ELSE claim[n]])

\* The other holder releases its claim: the next claim of the stack is granted.
RivalRelease(n) ==
  /\ rival[n]
  /\ Install([Cur EXCEPT !.rival[n] = FALSE,
                         !.claim[n] = IF claim[n] = "pending" THEN "granted"
                                      ELSE claim[n]])

\* The node's device disconnects.
Disconnect(n) ==
  /\ faults < MaxFaults
  /\ connected[n]
  /\ Install([Cur EXCEPT !.faults = faults + 1, !.connected[n] = FALSE])

\* The node's device reconnects and the node is configured.
Reconnect(n) ==
  /\ ~connected[n]
  /\ Install(Configure([Cur EXCEPT !.connected[n] = TRUE], n))

----------------------------------------------------------------------------
\* Program actions

\* The master starts the root program.
MasterStart ==
  /\ runPc[1] = "idle"
  /\ \E order \in Orders : Install(RunPrologue(Cur, 1, order))

\* The settle event awaited by p's apply has fired: apply moves on to the next
\* ancestor, or returns to run or resume.
ApplyWake(p) ==
  /\ ~Aborted
  /\ applyWait[p] # 0
  /\ applyWoken[p]
  /\ LET w == FirstUnset(Cur, itemParent[applyWait[p]])
     IN IF w # 0
        THEN Install([Cur EXCEPT !.applyWait[p] = w, !.applyWoken[p] = FALSE])
        ELSE \E order \in Orders :
               IF runPc[p] = "applying"
               THEN Install(RunAfterApply(Cur, p, order))
               ELSE Install(ResumeDone(Cur, p, order))

\* A client pause message (loose = False); refused by the assertion unless the
\* mode is Normal.
ClientPause(p) ==
  /\ ~Aborted
  /\ pauses < MaxPauses
  /\ mode[p] = "Normal"
  /\ Install(PauseBegin([Cur EXCEPT !.pauses = pauses + 1], p))

\* pause_children has returned to the awaiting pause of p.
PauseChildrenDone(p) ==
  /\ ~Aborted
  /\ pausePc[p] = "children"
  /\ ChildPausedOrGone(Cur, p)
  /\ Install(PauseFinish(Cur, p))

\* A client resume message (loose = False).
ClientResume(p) ==
  /\ ~Aborted
  /\ resumes < MaxResumes
  /\ mode[p] = "Paused"
  /\ \E order \in Orders :
       Install(ResumeBegin([Cur EXCEPT !.resumes = resumes + 1], p, FALSE, order).st)

\* pause(loose) called on a running program in any mode.
CallPause(p, loose) ==
  /\ ~Aborted
  /\ pauses < MaxPauses
  /\ runPc[p] \in {"applying", "child"}
  /\ Install(LET r == Pause([Cur EXCEPT !.pauses = pauses + 1], p, loose)
             IN [r.st EXCEPT !.lastCall = [op |-> "pause", prog |-> p,
                                           loose |-> loose, res |-> r.res]])

\* resume(loose) called on a running program in any mode.
CallResume(p, loose) ==
  /\ ~Aborted
  /\ resumes < MaxResumes
  /\ runPc[p] \in {"applying", "child"}
  /\ \E order \in Orders :
       Install(LET r == Resume([Cur EXCEPT !.resumes = resumes + 1], p, loose, order)
               IN [r.st EXCEPT !.lastCall = [op |-> "resume", prog |-> p,
                                             loose |-> loose, res |-> r.res]])

\* A client halt message.
ClientHalt(p) ==
  /\ ~Aborted
  /\ mode[p] \in {"Normal", "Paused"}
  /\ Install(HaltBegin(Cur, p))

----------------------------------------------------------------------------
\* The leaf segment program (host/pr1/fiber/segment.py), reduced to its modes.

\* The process stops after a pause request.
LeafPaused ==
  /\ ~Aborted
  /\ leaf = "pausing"
  /\ Install([Cur EXCEPT !.leaf = "paused"])

\* The process ends, by itself or stopped after a halt request: the segment's run
\* returns to the State programs above it.
LeafFinish ==
  /\ ~Aborted
  /\ leaf \in {"running", "pausing", "halting"}
  /\ Install(ChildReturned([Cur EXCEPT !.leaf = "done"], LastProg))

\* A client resume message for the leaf: its resume_parent resumes the State
\* programs above it loosely.
LeafResume ==
  /\ ~Aborted
  /\ resumes < MaxResumes
  /\ leaf = "paused"
  /\ \E order \in Orders :
       CASE mode[LastProg] = "Normal" ->
              Install([Cur EXCEPT !.leaf = "running", !.resumes = resumes + 1])
         [] mode[LastProg] = "Paused" ->
              LET r == ResumeBegin([Cur EXCEPT !.leaf = "resuming", !.resumes = resumes + 1],
                                   LastProg, TRUE, order)
              IN IF r.res = "raised" THEN Install([r.st EXCEPT !.leaf = "paused"])
                 ELSE Install(r.st)
         [] OTHER -> FALSE

----------------------------------------------------------------------------
\* The state manager and the devices consumer under a branching tree of
\* handles (SpecTree).  Handle 1 is the root program, 2 and 3 are its children
\* (the branches of a parallel block), 4 is a child of 2.  A handle owns an item
\* only when its program is a State program; every State block sets the node
\* "valve", block h to the value h.

Handles == {1, 2, 3, 4}
TreeNode == "valve"

\* ProgramHandle._parent (0 = the master, which is not a ProgramHandle).
TreeHandleParent(h) == IF h = 1 THEN 0 ELSE IF h = 4 THEN 2 ELSE 1

RECURSIVE HandleAncestors(_)
\* The handles strictly above h, nearest first.
HandleAncestors(h) ==
  IF TreeHandleParent(h) = 0 THEN <<>>
  ELSE <<TreeHandleParent(h)>> \o HandleAncestors(TreeHandleParent(h))

TreeStart(st) ==
  [stateful |-> st,
   items |-> {},
   itemParent |-> [h \in Handles |-> 0],
   itemDepth |-> [h \in Handles |-> 0],
   itemChildren |-> [h \in Handles |-> <<>>],
   applied |-> [h \in Handles |-> FALSE],
   candidates |-> [n \in Nodes |-> <<>>],
   current |-> [n \in Nodes |-> NoCand],
   updatedNodes |-> {},
   task |-> [n \in Nodes |-> "none"],
   writes |-> [n \in Nodes |-> <<>>],
   added |-> <<>>,
   removed |-> {},
   last |-> [op |-> "none", handle |-> 0],
   consumer |-> "none",      \* consumer method the last manager call reached
   error |-> "none"]

TreeIdle == TreeStart({})

RECURSIVE TreeWalkUp(_, _)
\* add's loop: while the handle above is a ProgramHandle, climb to it, and stop
\* when it has an item.  The result is the last handle visited.
TreeWalkUp(T, h) ==
  IF TreeHandleParent(h) = 0 THEN h
  ELSE IF TreeHandleParent(h) \in T.items THEN TreeHandleParent(h)
  ELSE TreeWalkUp(T, TreeHandleParent(h))

\* DevicesStateManager.add for a block that sets the node "valve".
TreeDevicesAdd(T, h) ==
  [T EXCEPT !.candidates[TreeNode] =
               InsortLeft(T, T.candidates[TreeNode], [item |-> h, value |-> h]),
            !.updatedNodes = T.updatedNodes \cup {TreeNode}]

\* GlobalStateManager.add.  self._items[current_handle] raises KeyError when the
\* loop ended on a handle other than the new one that has no item.
TreeGlobalAdd(T, h) ==
  LET top == TreeWalkUp(T, h)
  IN IF top # h /\ top \notin T.items
     THEN [T EXCEPT !.error = "KeyError", !.last = [op |-> "add", handle |-> h],
                    !.consumer = "none"]
     ELSE LET par == IF top # h THEN top ELSE 0
              T1 == [T EXCEPT !.items = T.items \cup {h},
                              !.itemParent[h] = par,
                              !.itemDepth[h] = IF par # 0 THEN T.itemDepth[par] + 1 ELSE 0,
                              !.itemChildren = [i \in Handles |->
                                  IF i = par THEN Append(T.itemChildren[i], h)
                                  ELSE IF i = h THEN <<>> ELSE T.itemChildren[i]],
                              !.applied[h] = FALSE,
                              !.added = Append(T.added, h),
                              !.last = [op |-> "add", handle |-> h],
                              !.consumer = "add"]
          IN TreeDevicesAdd(T1, h)

\* GlobalStateManager.apply for a handle that has an unapplied item, with
\* DevicesStateManager.apply: every updated node gets its new candidate, a task
\* is created for a node that has none, the unapplied ancestors become applied.
TreeGlobalApply(T, h) ==
  LET relevant == RelevantItems(T, h)
  IN [T EXCEPT !.current = [n \in Nodes |->
                  IF n \in T.updatedNodes THEN NewCandidate(T, n, relevant) ELSE @[n]],
               !.task = [n \in Nodes |->
                  IF n \in T.updatedNodes /\ @[n] = "none" THEN "created" ELSE @[n]],
               !.updatedNodes = {},
               !.applied = [i \in Handles |-> IF i \in relevant THEN TRUE ELSE @[i]],
               !.last = [op |-> "apply", handle |-> h],
               !.consumer = "apply"]

RECURSIVE TreeOrigin(_, _)
\* apply's loop: from the handle upwards, the first handle that has an item
\* (0 = none up to the master).
TreeOrigin(T, h) ==
  IF h = 0 THEN 0
  ELSE IF h \in T.items THEN h
  ELSE TreeOrigin(T, TreeHandleParent(h))

\* An apply that raises whenever there is nothing to apply.
TreeApplyCallRaises(T, h, terminal) ==
  LET origin == TreeOrigin(T, h)
  IN IF origin = 0 \/ T.applied[origin]
     THEN [T EXCEPT !.error = "AssertionError",
                    !.last = [op |-> "applyCall", handle |-> h], !.consumer = "none"]
     ELSE [TreeGlobalApply(T, origin) EXCEPT !.last = [op |-> "applyCall", handle |-> h]]

\* GlobalStateManager.apply(handle, terminal): nothing to apply when no item is
\* found or the item found is applied; then terminal decides between returning
\* None and raising.
TreeApplyCall(T, h, terminal) ==
  LET origin == TreeOrigin(T, h)
  IN IF origin = 0 \/ T.applied[origin]
     THEN [T EXCEPT !.error = IF terminal THEN "none" ELSE "AssertionError",
                    !.last = [op |-> "applyCall", handle |-> h], !.consumer = "none"]
     ELSE [TreeGlobalApply(T, origin) EXCEPT !.last = [op |-> "applyCall", handle |-> h]]

\* The tear-down of a State program: suspend when the item is applied, then
\* GlobalStateManager.remove with DevicesStateManager.remove.
TreeGlobalRemove(T, h) ==
  [T EXCEPT !.applied[h] = FALSE,
            !.candidates[TreeNode] = SelectSeq(@, LAMBDA c : c.item # h),
            !.current[TreeNode] = IF @.item = h THEN NoCand ELSE @,
            !.updatedNodes = T.updatedNodes \cup {TreeNode},
            !.itemChildren = [i \in Handles |->
                IF i = T.itemParent[h] THEN ListRemove(T, @[i], h) ELSE @[i]],
            !.items = T.items \ {h},
            !.removed = T.removed \cup {h},
            !.last = [op |-> "remove", handle |-> h],
            !.consumer = "remove"]

\* The other sub-models stay as they are.
TreeFrame == UNCHANGED <<progVars, segment, blockState, node, host, pump>>

\* A State program starts: its parent program is running, so every State
\* program above it has added its item and not yet removed it.
TreeAdd(h) ==
  /\ tree.error = "none"
  /\ h \in tree.stateful
  /\ h \notin SeqRange(tree.added)
  /\ \A a \in SeqRange(HandleAncestors(h)) : a \in tree.stateful => a \in tree.items
  /\ tree' = TreeGlobalAdd(tree, h)
  /\ TreeFrame

TreeApply(h) ==
  /\ tree.error = "none"
  /\ h \in tree.items
  /\ ~tree.applied[h]
  /\ tree' = TreeGlobalApply(tree, h)
  /\ TreeFrame

\* apply(handle, terminal=True) from any program handle, with or without an
\* item on the way up.
TreeApplyTerminal(h) ==
  /\ tree.error = "none"
  /\ tree' = TreeApplyCall(tree, h, TRUE)
  /\ TreeFrame

\* A State program ends after the programs below it.
TreeRemove(h) ==
  /\ tree.error = "none"
  /\ h \in tree.items
  /\ \A d \in tree.items : h \notin SeqRange(HandleAncestors(d))
  /\ tree' = TreeGlobalRemove(tree, h)
  /\ TreeFrame

\* _node_lifecycle from its start to the race: the claim is granted, the value
\* of the current candidate, if any, is written.
TreeLifecycle(n) ==
  /\ tree.task[n] = "created"
  /\ tree' = [tree EXCEPT !.task[n] = "race",
                          !.writes[n] = IF tree.current[n] # NoCand
                                        THEN Append(@, tree.current[n].value) ELSE @,
                          !.last = [op |-> "write", handle |-> 0]]
  /\ TreeFrame

----------------------------------------------------------------------------
\* SegmentProgram (host/pr1/fiber/segment.py), SpecSegment.  The process, the
\* coupled iterator and the state instance are not part of the sources at
\* hand; they follow the process contract: a process answers pause() and
\* halt() with an event that has stopped = True, a paused process stays silent
\* until resume(), and the iterator hands out the latest process event with the
\* latest state location, also when only the state location changed; a Process
\* created after a jump starts a new stream, of which nothing has been handed
\* out yet.

MaxEvents == 4
MaxMessages == 3

SegmentStart ==
  [mode |-> "Normal",        \* SegmentProgram._mode
   pc |-> "loop",            \* position of run: "loop" | "suspending" | "done"
   process |-> "running",    \* the process: "running" | "paused" | "ended"
   asked |-> "none",         \* request the process has not answered yet
   lastStopped |-> "none",   \* stopped flag of the latest process event
   pending |-> "none",       \* stopped flag of the event whose handling awaits suspend
   applied |-> TRUE,         \* state_instance.applied
   location |-> "applied",   \* latest state location the iterator was notified of
   emitted |-> [mode |-> "none", stopped |-> FALSE, state |-> "none"],
   yields |-> 0,             \* events yielded by run so far
   message |-> "none",       \* last message accepted
   messageIn |-> "none",     \* the mode it was accepted in
   stoppedSince |-> FALSE,   \* a stopped process event arrived since that message
   runningSince |-> FALSE,   \* a process event that is not stopped arrived since
   suspends |-> 0,           \* state_instance.suspend calls since that message
   applies |-> 0,            \* state_instance.apply(resume=True) calls since
   events |-> 0,             \* process events so far
   messages |-> 0,           \* messages accepted so far
   canJump |-> FALSE,        \* hasattr(process, 'jump')
   point |-> FALSE,          \* self._point is set
   restarts |-> 0,           \* processes created after the first one
   misuse |-> FALSE]         \* suspend was called on an instance that is not
                             \* applied, or apply on an applied one

SegmentIdle == [SegmentStart EXCEPT !.mode = "Unset", !.pc = "idle"]

\* busy
SegmentBusy(s) == s.mode \in {"PausingProcess", "PausingState"}

Accept(s, msg) ==
  [s EXCEPT !.message = msg, !.messageIn = s.mode, !.stoppedSince = FALSE,
            !.runningSince = FALSE, !.suspends = 0, !.applies = 0,
            !.messages = s.messages + 1]

\* halt()
SegmentHaltCall(s) == [Accept(s, "halt") EXCEPT !.mode = "Halting", !.asked = "halt"]

\* pause()
SegmentPauseCall(s) ==
  [Accept(s, "pause") EXCEPT !.mode = "PausingProcess", !.asked = "pause"]

\* jump(point): the process jumps by itself, or the point is kept and the
\* process halted.
SegmentJumpCall(s) ==
  IF s.canJump THEN Accept(s, "jump")
  ELSE [Accept(s, "jump") EXCEPT !.mode = "Halting", !.asked = "halt", !.point = TRUE]

\* resume()
SegmentResumeCall(s) == [Accept(s, "resume") EXCEPT !.asked = "resume"]

\* state_instance.suspend()
InstanceSuspend(s) ==
  [s EXCEPT !.applied = FALSE, !.location = "suspended", !.suspends = s.suspends + 1,
            !.misuse = s.misuse \/ ~s.applied]

\* state_instance.apply(state, resume=True)
InstanceApply(s) ==
  [s EXCEPT !.applied = TRUE, !.location = "reapplied", !.applies = s.applies + 1,
            !.misuse = s.misuse \/ s.applied]

\* A loop body that starts suspending the state on any event.
OnPausingProcessAnyEvent(s, stopped) ==
  IF s.mode = "PausingProcess"
  THEN [s EXCEPT !.mode = "PausingState", !.pc = "suspending", !.pending = "stopped"]
  ELSE s

\* if mode == PausingProcess and event.stopped: mode = PausingState, and the
\* await of state_instance.suspend() begins.
OnPausingProcess(s, stopped) ==
  IF s.mode = "PausingProcess" /\ stopped
  THEN [s EXCEPT !.mode = "PausingState", !.pc = "suspending", !.pending = "stopped"]
  ELSE s

\* A loop body that takes any event for the end of the process.
OnHaltingAnyEvent(s, stopped) ==
  IF s.mode = "Halting" THEN [s EXCEPT !.mode = "Halted"] ELSE s

\* if mode == Halting and event.stopped: mode = Halted
OnHalting(s, stopped) ==
  IF s.mode = "Halting" /\ stopped THEN [s EXCEPT !.mode = "Halted"] ELSE s

\* if mode == PausingState: mode = Paused
OnPausingState(s) ==
  IF s.mode = "PausingState" THEN [s EXCEPT !.mode = "Paused"] ELSE s

\* A loop body that returns to Normal without applying the state again.
OnPausedNoApply(s, stopped) ==
  IF s.mode = "Paused" /\ ~stopped THEN [s EXCEPT !.mode = "Normal"] ELSE s

\* if mode == Paused and not event.stopped: mode = Normal and the state is
\* applied again; its return value replaces the iterator's state location.
OnPaused(s, stopped) ==
  IF s.mode = "Paused" /\ ~stopped
  THEN [InstanceApply(s) EXCEPT !.mode = "Normal"]
  ELSE s

\* yield ProgramExecEvent(state=SegmentProgramLocation(mode, ..., state), stopped)
SegmentYield(s) ==
  [s EXCEPT !.emitted = [mode |-> s.mode,
                         stopped |-> s.mode \in {"Paused", "Halted"},
                         state |-> s.location],
            !.yields = IF s.yields < MaxEvents + MaxMessages + 2
                       THEN s.yields + 1 ELSE s.yields]

\* The loop body after the first condition.
BodyRest(s, stopped) ==
  SegmentYield(OnPaused(OnPausingState(OnHalting(s, stopped)), stopped))

\* The loop body for one item of the iterator, up to its first await.
Body(s, stopped) ==
  LET s1 == OnPausingProcess(s, stopped)
  IN IF s1.pc = "suspending" THEN s1 ELSE BodyRest(s1, stopped)

\* The other sub-models stay as they are.
SegmentFrame == UNCHANGED <<progVars, tree, blockState, node, host, pump>>

\* A client message arrives: import_message dispatches to halt, pause or
\* resume, whose assertion must hold.
SegmentHalt ==
  /\ segment.pc \in {"loop", "suspending"} /\ segment.messages < MaxMessages
  /\ ~SegmentBusy(segment) /\ segment.mode \in {"Normal", "Paused"}
  /\ segment' = SegmentHaltCall(segment)
  /\ SegmentFrame

SegmentPause ==
  /\ segment.pc \in {"loop", "suspending"} /\ segment.messages < MaxMessages
  /\ ~SegmentBusy(segment) /\ segment.mode = "Normal"
  /\ segment' = SegmentPauseCall(segment)
  /\ SegmentFrame

SegmentJump ==
  /\ segment.pc \in {"loop", "suspending"} /\ segment.messages < MaxMessages
  /\ ~SegmentBusy(segment) /\ segment.mode = "Normal"
  /\ segment' = SegmentJumpCall(segment)
  /\ SegmentFrame

SegmentResume ==
  /\ segment.pc \in {"loop", "suspending"} /\ segment.messages < MaxMessages
  /\ ~SegmentBusy(segment) /\ segment.mode = "Paused"
  /\ segment' = SegmentResumeCall(segment)
  /\ SegmentFrame

\* The process yields an event and the loop body handles it.  A stopped event
\* answers a pause or a halt; a paused process yields again only once resumed
\* or asked to halt.
ProcessEvent(stopped) ==
  /\ segment.pc = "loop" /\ segment.events < MaxEvents
  /\ IF stopped
     THEN \/ segment.process = "running" /\ segment.asked = "pause"
          \/ segment.process \in {"running", "paused"} /\ segment.asked = "halt"
     ELSE segment.process = "running" \/ (segment.process = "paused" /\ segment.asked = "resume")
  /\ segment' = Body([segment EXCEPT
                        !.events = @ + 1,
                        !.lastStopped = IF stopped THEN "stopped" ELSE "running",
                        !.stoppedSince = @ \/ stopped,
                        !.runningSince = @ \/ ~stopped,
                        !.process = IF ~stopped THEN "running"
                                    ELSE IF segment.asked = "halt" THEN "ended"
                                    ELSE "paused",
                        !.asked = IF stopped \/ segment.asked = "resume"
                                  THEN "none" ELSE @], stopped)
  /\ SegmentFrame

\* The applied state instance notifies a new location (its nodes settled): the
\* iterator hands out the latest process event once more.
StateNotified ==
  /\ segment.pc = "loop" /\ segment.lastStopped # "none"
  /\ segment.applied /\ segment.location \in {"applied", "reapplied"}
  /\ segment' = Body([segment EXCEPT !.location = "settled"],
                     segment.lastStopped = "stopped")
  /\ SegmentFrame

\* await state_instance.suspend() returns and the loop body goes on.
SegmentSuspended ==
  /\ segment.pc = "suspending"
  /\ segment' = BodyRest([InstanceSuspend(segment) EXCEPT !.pc = "loop", !.pending = "none"],
                         segment.pending = "stopped")
  /\ SegmentFrame

\* An end of run that suspends the state instance whatever its status.
EpilogueAlways(s) == InstanceSuspend(s)

\* if state_instance.applied: await state_instance.suspend()
Epilogue(s) == IF s.applied THEN InstanceSuspend(s) ELSE s

\* The process ends while a point is set: the inner loop creates the next
\* Process in mode Normal.
SegmentRestart ==
  /\ segment.pc = "loop" /\ segment.process = "ended" /\ segment.point
  /\ segment' = [segment EXCEPT !.mode = "Normal", !.point = FALSE,
                                !.process = "running", !.asked = "none",
                                !.lastStopped = "none",
                                !.restarts = segment.restarts + 1]
  /\ SegmentFrame

\* The process ends with no point set, and so does the iterator: the state is
\* suspended if it is applied.
SegmentFinish ==
  /\ segment.pc = "loop" /\ ~segment.point
  /\ segment.process = "ended" \/ (segment.process = "running" /\ segment.asked = "none")
  /\ segment' = [Epilogue(segment) EXCEPT !.pc = "done", !.process = "ended"]
  /\ SegmentFrame

----------------------------------------------------------------------------
\* BlockState and its unit states (host/pr1/fiber/parser.py,
\* units/core/pr1_devices/parser.py), SpecBlockState.  A block state maps each
\* namespace to a unit state or None: "devices" holds a DevicesState, "name" a
\* plain BlockUnitState.  A unit state is the record of its node values (0 = the
\* path is not set); null marks None.

Namespaces == {"devices", "name"}

NoValues == [n \in Nodes |-> 0]
NoneEntry == [null |-> TRUE, values |-> NoValues]
NoneState == [null |-> TRUE, entries |-> [ns \in Namespaces |-> NoneEntry]]

\* The unit states a block may hold in a namespace when it sets its nodes to v.
EntriesOf(ns, v) ==
  {NoneEntry} \cup
  IF ns = "devices"
  THEN {[null |-> FALSE, values |-> [n \in Nodes |-> IF n \in set THEN v ELSE 0]] :
          set \in SUBSET Nodes}
  ELSE {[null |-> FALSE, values |-> [n \in Nodes |-> v]]}

\* None and the block states of a block that sets its nodes to v.
StatesOf(v) ==
  {NoneState} \cup
  {[null |-> FALSE, entries |-> e] :
     e \in {f \in [Namespaces -> UNION {EntriesOf(ns, v) : ns \in Namespaces}] :
              \A ns \in Namespaces : f[ns] \in EntriesOf(ns, v)}}

Returned(x, y) == [error |-> "none", first |-> x, second |-> y]
Raised(e) == [error |-> e, first |-> NoneState, second |-> NoneState]

\* BlockUnitState.__or__
UnitOr(self, other) == other

\* BlockState.__ror__
BlockStateRor(self, other) ==
  IF other.null THEN self
  ELSE [null |-> FALSE,
        entries |-> [key \in Namespaces |->
           IF self.entries[key].null THEN other.entries[key]
           ELSE IF other.entries[key].null THEN self.entries[key]
           ELSE UnitOr(other.entries[key], self.entries[key])]]

\* BlockState.__or__: other.__ror__(self); None has no __ror__.
BlockStateOr(self, other) ==
  IF other.null THEN Raised("AttributeError")
  ELSE Returned(BlockStateRor(other, self), NoneState)

\* The expression a | b: a.__or__(b), or b.__ror__(a) when a is None.
OrExpr(a, b) ==
  IF ~a.null THEN BlockStateOr(a, b)
  ELSE IF ~b.null THEN Returned(BlockStateRor(b, a), NoneState)
  ELSE Raised("TypeError")

\* DevicesState.__and__
DevicesAnd(self, other) ==
  Returned([null |-> FALSE,
            values |-> [key \in Nodes |->
               IF ~other.null /\ other.values[key] # 0 THEN 0 ELSE self.values[key]]],
           IF ~other.null THEN other ELSE [null |-> FALSE, values |-> NoValues])

\* BlockUnitState.__and__
UnitAnd(self, other) == Returned(self, other)

\* The expression value & other_value on two unit states: None has no __and__
\* and the unit states have no __rand__.
UnitAndExpr(ns, value, other) ==
  IF value.null THEN Raised("TypeError")
  ELSE IF ns = "devices" THEN DevicesAnd(value, other)
  ELSE UnitAnd(value, other)

\* BlockState.__and__
BlockStateAnd(self, other) ==
  LET pair == [ns \in Namespaces |->
                 IF ~self.entries[ns].null \/ ~other.entries[ns].null
                 THEN UnitAndExpr(ns, self.entries[ns], other.entries[ns])
                 ELSE Returned(NoneEntry, NoneEntry)]
  IN IF \E ns \in Namespaces : pair[ns].error # "none"
     THEN Raised("TypeError")
     ELSE Returned([null |-> FALSE, entries |-> [ns \in Namespaces |-> pair[ns].first]],
                   [null |-> FALSE, entries |-> [ns \in Namespaces |-> pair[ns].second]])

\* The expression a & b: None has no __and__ and cannot be subscripted.
AndExpr(a, b) ==
  IF a.null \/ b.null THEN Raised("TypeError") ELSE BlockStateAnd(a, b)

BlockStateIdle ==
  [a |-> NoneState, b |-> NoneState, op |-> "idle", out |-> Returned(NoneState, NoneState)]

\* The other sub-models stay as they are.
BlockStateFrame == UNCHANGED <<progVars, tree, segment, node, host, pump>>

\* a | b is evaluated.
Merge ==
  /\ blockState.op = "none"
  /\ blockState' = [blockState EXCEPT !.op = "or",
                                      !.out = OrExpr(blockState.a, blockState.b)]
  /\ BlockStateFrame

\* a & b is evaluated.
Split ==
  /\ blockState.op = "none"
  /\ blockState' = [blockState EXCEPT !.op = "and",
                                      !.out = AndExpr(blockState.a, blockState.b)]
  /\ BlockStateFrame

----------------------------------------------------------------------------
\* ValueNode (host/pr1/devices/nodes/value.py), SpecNode: one readable and
\* writable node, a consumer task calling read(), a consumer task calling
\* write(v), and the producer, which marks the node connected and runs
\* _configure() when the device (re)connects.

NodeValues == {1, 2}

NodeStart ==
  [connected |-> FALSE,   \* node.connected
   lock |-> "free",       \* holder of _lock: "free" | "read" | "write" | "configure"
   reads |-> 0,           \* calls of _read that are running
   offline |-> FALSE,     \* a _read was started while the node was disconnected
   readPc |-> "idle",     \* the consumer's read(): "idle" | "read"
   writePc |-> "idle",    \* the consumer's write(): "idle" | "wait" | "write"
   writeValue |-> 0,      \* the argument of that write
   cfgPc |-> "idle",      \* _configure(): "idle" | "read" | "wait" | "write"
   target |-> 0,          \* _target_value (0 = Null)
   device |-> 0]          \* the value the device holds

\* The other sub-models stay as they are.
NodeFrame == UNCHANGED <<progVars, tree, segment, blockState, host, pump>>

\* await self._read() begins.
ReadBegins(nd) ==
  [nd EXCEPT !.reads = nd.reads + 1, !.offline = nd.offline \/ ~nd.connected]

\* _configure up to its first suspension: await self._read(), without the lock.
ConfigureBegins(nd) == [ReadBegins(nd) EXCEPT !.cfgPc = "read"]

\* The device (re)connects: the producer marks the node connected and calls
\* _configure().
NodeConnect ==
  /\ ~node.connected /\ node.cfgPc = "idle"
  /\ node' = ConfigureBegins([node EXCEPT !.connected = TRUE])
  /\ NodeFrame

\* The device disconnects.
NodeDisconnect ==
  /\ node.connected
  /\ node' = [node EXCEPT !.connected = FALSE]
  /\ NodeFrame

\* _configure's _read ends: it returns, or raises NodeUnavailableError when the
\* node was disconnected meanwhile, which ends _configure.  After a return,
\* write(target) is called unless the target is reached.
NodeConfigureRead ==
  /\ node.cfgPc = "read"
  /\ \E returned \in (IF node.connected THEN {TRUE} ELSE BOOLEAN) :
       node' = [node EXCEPT !.reads = node.reads - 1,
                            !.lock = IF @ = "configure" THEN "free" ELSE @,
                            !.cfgPc = IF returned /\ node.device # node.target
                                      THEN "wait" ELSE "idle"]
  /\ NodeFrame

\* _configure's write(target) takes the lock: _write is awaited if the node is
\* connected.
NodeConfigureLock ==
  /\ node.cfgPc = "wait" /\ node.lock = "free"
  /\ node' = IF node.connected
             THEN [node EXCEPT !.lock = "configure", !.cfgPc = "write"]
             ELSE [node EXCEPT !.cfgPc = "idle"]
  /\ NodeFrame

\* _configure's _write ends; NodeUnavailableError is swallowed.
NodeConfigureWritten ==
  /\ node.cfgPc = "write"
  /\ node' = [node EXCEPT !.lock = "free", !.cfgPc = "idle",
                          !.device = IF node.connected THEN node.target ELSE @]
  /\ NodeFrame

\* The consumer's read() takes the lock: _read is awaited if the node is
\* connected, otherwise read() returns False.
NodeRead ==
  /\ node.readPc = "idle" /\ node.lock = "free"
  /\ node' = IF node.connected
             THEN [ReadBegins(node) EXCEPT !.lock = "read", !.readPc = "read"]
             ELSE node
  /\ NodeFrame

\* The consumer's _read ends and read() releases the lock.
NodeReadReturn ==
  /\ node.readPc = "read"
  /\ node' = [node EXCEPT !.reads = node.reads - 1, !.lock = "free", !.readPc = "idle"]
  /\ NodeFrame

\* The consumer calls write(v): the target is stored, then the lock awaited.
NodeWrite(v) ==
  /\ node.writePc = "idle"
  /\ node' = [node EXCEPT !.target = v, !.writeValue = v, !.writePc = "wait"]
  /\ NodeFrame

\* The consumer's write takes the lock.
NodeWriteLock ==
  /\ node.writePc = "wait" /\ node.lock = "free"
  /\ node' = IF node.connected
             THEN [node EXCEPT !.lock = "write", !.writePc = "write"]
             ELSE [node EXCEPT !.writePc = "idle"]
  /\ NodeFrame

\* The consumer's _write ends; NodeUnavailableError is swallowed.
NodeWritten ==
  /\ node.writePc = "write"
  /\ node' = [node EXCEPT !.lock = "free", !.writePc = "idle",
                          !.device = IF node.connected THEN node.writeValue ELSE @]
  /\ NodeFrame

----------------------------------------------------------------------------
\* Host (host/pr1/host.py), SpecHost: two chips, drafts created under two ids,
\* and the messages createDraft and startPlan.

MaxDrafts == 2

Chips == {"c1", "c2"}
DraftIds == {"d1", "d2"}
NoDraft == [id |-> "none", nr |-> 0]

HostIdle ==
  [master |-> [c \in Chips |-> NoDraft],   \* chip.master: the draft whose protocol it runs
   masters |-> [c \in Chips |-> 0],        \* Master objects created for the chip
   drafts |-> [d \in DraftIds |-> 0],      \* self.drafts: the draft under the id (0 = none)
   created |-> [d \in DraftIds |-> 0],     \* drafts created under the id so far
   last |-> [type |-> "none", chip |-> "none", draft |-> "none"],
   error |-> "none"]                       \* exception raised by the last message

\* The other sub-models stay as they are.
HostFrame == UNCHANGED <<progVars, tree, segment, blockState, node, pump>>

\* create_draft: a new draft is stored under the id, replacing any other.
CreateDraft(H, d) ==
  [H EXCEPT !.created[d] = H.created[d] + 1,
            !.drafts[d] = H.created[d] + 1,
            !.last = [type |-> "createDraft", chip |-> "none", draft |-> d],
            !.error = "none"]

\* A start_plan that leaves the draft in the drafts map.
StartPlanKeepsDraft(H, c, d) ==
  IF H.master[c] # NoDraft
  THEN [H EXCEPT !.error = "Already running"]
  ELSE [H EXCEPT !.master[c] = [id |-> d, nr |-> H.drafts[d]],
                 !.masters[c] = H.masters[c] + 1,
                 !.error = "none"]

\* start_plan
StartPlan(H, c, d) ==
  IF H.master[c] # NoDraft
  THEN [H EXCEPT !.error = "Already running"]
  ELSE [H EXCEPT !.master[c] = [id |-> d, nr |-> H.drafts[d]],
                 !.masters[c] = H.masters[c] + 1,
                 !.drafts[d] = 0,
                 !.error = "none"]

\* The message createDraft.
HostCreateDraft(d) ==
  /\ host.created[d] < MaxDrafts
  /\ host' = CreateDraft(host, d)
  /\ HostFrame

\* The message startPlan: self.drafts[draftId] raises KeyError when there is no
\* draft under the id.
HostStartPlan(c, d) ==
  /\ host' = LET H == [host EXCEPT !.last = [type |-> "startPlan", chip |-> c, draft |-> d]]
             IN IF H.drafts[d] = 0 THEN [H EXCEPT !.error = "KeyError"]
                ELSE StartPlan(H, c, d)
  /\ HostFrame

----------------------------------------------------------------------------
\* RunzeSyringePumpDevice (units/runzepump/pr1_runzepump/device.py), SpecPump:
\* the _connect loop, the three nodes of the device and a consumer that writes
\* to them.

MaxSteps == 3

PumpNodes == {"valve_position", "plunger_speed_grade", "plunger_position"}

PumpIdle ==
  [pc |-> "find",            \* _connect: "find" | "configure" | "ready" | "closing" | "sleep"
   device |-> FALSE,         \* self._device is not None
   connected |-> FALSE,      \* self.connected
   nodeConnected |-> [n \in PumpNodes |-> FALSE],  \* node.connected
   ready |-> FALSE,          \* _connect has yielded
   step |-> 0,               \* the local variable step
   initialized |-> FALSE,    \* initialize() was called on the current device
   lastWrite |-> [node |-> "none", res |-> "none"]]
                             \* the last node write that reached _write

\* The other sub-models stay as they are.
PumpFrame == UNCHANGED <<progVars, tree, segment, blockState, node, host>>

\* self._device = await self._find_device()
PumpFind(found) ==
  /\ pump.pc = "find"
  /\ pump' = [pump EXCEPT !.device = found,
                          !.initialized = FALSE,
                          !.pc = IF found THEN "configure" ELSE "sleep",
                          !.step = IF ~found /\ pump.ready /\ pump.step < MaxSteps
                                   THEN @ + 1 ELSE @,
                          !.ready = @ \/ ~found]
  /\ PumpFrame

\* The nodes are entered in order; __aenter__ of the plunger node raises
\* NodeUnavailableError on a volume mismatch, before its own assignment, and
\* the nodes entered before it are exited.
EnterNodes(P, volumeOk) ==
  IF volumeOk THEN [P EXCEPT !.pc = "ready", !.ready = TRUE]
  ELSE [P EXCEPT !.nodeConnected["valve_position"] = FALSE,
                 !.nodeConnected["plunger_speed_grade"] = FALSE,
                 !.connected = FALSE, !.pc = "closing"]

\* The status query returns (fresh: the device reports that it is not
\* initialized) or raises a connection error; a fresh device is initialized
\* on the first pass.  Then the device and every node are marked connected and
\* the nodes are entered.  The finally clause marks the device disconnected and
\* awaits close().
PumpConfigure(statusOk, fresh, volumeOk) ==
  /\ pump.pc = "configure"
  /\ pump' = IF ~statusOk THEN [pump EXCEPT !.connected = FALSE, !.pc = "closing"]
             ELSE EnterNodes([pump EXCEPT !.connected = TRUE,
                                          !.initialized = fresh /\ pump.step = 0,
                                          !.nodeConnected = [n \in PumpNodes |-> TRUE]],
                             volumeOk)
  /\ PumpFrame

\* wait_error() returns: the nodes are exited, then the finally clause runs up
\* to close().
PumpLost ==
  /\ pump.pc = "ready"
  /\ pump' = [pump EXCEPT !.nodeConnected = [n \in PumpNodes |-> FALSE],
                          !.connected = FALSE, !.pc = "closing"]
  /\ PumpFrame

\* close() returns: self._device = None, then the wait before the next attempt.
PumpClosed ==
  /\ pump.pc = "closing"
  /\ pump' = [pump EXCEPT !.device = FALSE, !.pc = "sleep",
                          !.step = IF pump.ready /\ pump.step < MaxSteps THEN @ + 1 ELSE @,
                          !.ready = TRUE]
  /\ PumpFrame

\* asyncio.sleep(2.0) returns and the loop tries again.
PumpRetry ==
  /\ pump.pc = "sleep" /\ pump.step < MaxSteps
  /\ pump' = [pump EXCEPT !.pc = "find"]
  /\ PumpFrame

\* A consumer writes to a node: ValueNode.write calls _write when the node is
\* connected, and _write asserts that the device is there.
PumpWrite(n) ==
  /\ pump.nodeConnected[n]
  /\ pump' = [pump EXCEPT !.lastWrite = [node |-> n,
                                         res |-> IF pump.device THEN "written"
                                                 ELSE "AssertionError"]]
  /\ PumpFrame


----------------------------------------------------------------------------

InitPrograms ==
  /\ settle \in [Progs -> BOOLEAN]
  /\ nodesOf \in [Progs -> SUBSET Nodes]
  /\ items = {}
  /\ itemParent = [p \in Progs |-> 0]
  /\ itemDepth = [p \in Progs |-> 0]
  /\ itemChildren = [p \in Progs |-> <<>>]
  /\ applied = [p \in Progs |-> FALSE]
  /\ settleEvent = [p \in Progs |-> FALSE]
  /\ entry = [p \in Progs |-> "None"]
  /\ itemNodes = [p \in Progs |-> {}]
  /\ candidates = [n \in Nodes |-> <<>>]
  /\ current = [n \in Nodes |-> NoCand]
  /\ nodeSettled = [n \in Nodes |-> FALSE]
  /\ claim = [n \in Nodes |-> "none"]
  /\ task = [n \in Nodes |-> "none"]
  /\ updateEvent = [n \in Nodes |-> "none"]
  /\ updatedNodes = {}
  /\ writes = [n \in Nodes |-> <<>>]
  /\ mode = [p \in Progs |-> "Unset"]
  /\ modeLog = [p \in Progs |-> <<>>]
  /\ runPc = [p \in Progs |-> "idle"]
  /\ pausePc = [p \in Progs |-> "idle"]
  /\ resumePc = [p \in Progs |-> "idle"]
  /\ resumeLoose = [p \in Progs |-> FALSE]
  /\ applyWait = [p \in Progs |-> 0]
  /\ applyWoken = [p \in Progs |-> FALSE]
  /\ leaf = "none"
  /\ received = [p \in Progs |-> FALSE]
  /\ suspendCalls = [p \in Progs |-> 0]
  /\ removeCalls = [p \in Progs |-> 0]
  /\ pauses = 0
  /\ resumes = 0
  /\ childAt = [p \in Progs |-> "none"]
  /\ rival = [n \in Nodes |-> FALSE]
  /\ lost = [n \in Nodes |-> FALSE]
  /\ connected = [n \in Nodes |-> TRUE]
  /\ target = [n \in Nodes |-> 0]
  /\ device = [n \in Nodes |-> 0]
  /\ lastDone = [n \in Nodes |-> 0]
  /\ toggles = [p \in Progs |-> 0]
  /\ cancelledAt = [n \in Nodes |-> "none"]
  /\ faults = 0
  /\ unselected = {}
  /\ assigned = [n \in Nodes |-> <<>>]
  /\ lastRecord = [p \in Progs |-> "none"]
  /\ sent = [p \in Progs |-> "none"]
  /\ lastCall = NoCall

Init ==
  /\ InitPrograms
  /\ tree = TreeIdle
  /\ segment = SegmentIdle
  /\ blockState = BlockStateIdle
  /\ node = NodeStart /\ host = HostIdle /\ pump = PumpIdle

\* A run that nothing outside the programs disturbs.
Next ==
  \/ MasterStart
  \/ \E p \in Progs : ApplyWake(p)
  \/ \E p \in Progs : ClientPause(p)
  \/ \E p \in Progs : PauseChildrenDone(p)
  \/ \E p \in Progs : ClientResume(p)
  \/ \E p \in Progs : ClientHalt(p)
  \/ LeafPaused
  \/ LeafFinish
  \/ LeafResume
  \/ \E n \in Nodes : LifecycleClaim(n)
  \/ \E n \in Nodes : LifecycleWritten(n)

Spec == Init /\ [][Next]_vars

\* A run in which other claim holders, disconnections and a cancellation
\* interfere with the nodes.
NextDisturbed ==
  \/ Next
  \/ \E n \in Nodes : LifecycleLoop(n)
  \/ \E n \in Nodes : CancelTask(n)
  \/ \E n \in Nodes : RivalClaim(n)
  \/ \E n \in Nodes : RivalRelease(n)
  \/ \E n \in Nodes : Disconnect(n)
  \/ \E n \in Nodes : Reconnect(n)

SpecDisturbed == Init /\ [][NextDisturbed]_vars

\* A run in which pause and resume are also called, loosely or strictly, on
\* programs in any mode.
NextLoose ==
  \/ Next
  \/ \E p \in Progs, loose \in BOOLEAN : CallPause(p, loose)
  \/ \E p \in Progs, loose \in BOOLEAN : CallResume(p, loose)

SpecLoose == Init /\ [][NextLoose]_vars

\* The event loop runs every node-lifecycle task that is ready: a task whose
\* claim is granted, or whose write has returned, takes its next step.
SpecFair ==
  /\ Spec
  /\ WF_vars(\E n \in Nodes : LifecycleClaim(n))
  /\ WF_vars(\E n \in Nodes : LifecycleWritten(n))

\* The item tree under a branching tree of handles, for every choice of the
\* handles that run a State program.
InitTree ==
  /\ InitPrograms
  /\ settle = [p \in Progs |-> FALSE]
  /\ nodesOf = [p \in Progs |-> {}]
  /\ tree \in {TreeStart(st) : st \in SUBSET Handles}
  /\ segment = SegmentIdle
  /\ blockState = BlockStateIdle
  /\ node = NodeStart /\ host = HostIdle /\ pump = PumpIdle

NextTree ==
  \/ \E h \in Handles : TreeAdd(h)
  \/ \E h \in Handles : TreeApply(h)
  \/ \E h \in Handles : TreeApplyTerminal(h)
  \/ \E h \in Handles : TreeRemove(h)
  \/ \E n \in Nodes : TreeLifecycle(n)

SpecTree == InitTree /\ [][NextTree]_vars

\* A segment program after run has applied its state and entered its loop, for
\* a process with and without a jump method.
InitSegment ==
  /\ InitPrograms
  /\ settle = [p \in Progs |-> FALSE]
  /\ nodesOf = [p \in Progs |-> {}]
  /\ tree = TreeIdle
  /\ segment \in {[SegmentStart EXCEPT !.canJump = c] : c \in BOOLEAN}
  /\ blockState = BlockStateIdle
  /\ node = NodeStart /\ host = HostIdle /\ pump = PumpIdle

NextSegment ==
  \/ SegmentHalt
  \/ SegmentPause
  \/ SegmentResume
  \/ SegmentJump
  \/ SegmentRestart
  \/ \E stopped \in BOOLEAN : ProcessEvent(stopped)
  \/ StateNotified
  \/ SegmentSuspended
  \/ SegmentFinish

SpecSegment == InitSegment /\ [][NextSegment]_vars

\* Two block states: a of an outer block (node values 1), b of an inner block
\* (node values 2), each possibly None and with any entries None.
InitBlockState ==
  /\ InitPrograms
  /\ settle = [p \in Progs |-> FALSE]
  /\ nodesOf = [p \in Progs |-> {}]
  /\ tree = TreeIdle
  /\ segment = SegmentIdle
  /\ blockState \in {[a |-> x, b |-> y, op |-> "none", out |-> Returned(NoneState, NoneState)] :
                       x \in StatesOf(1), y \in StatesOf(2)}
  /\ node = NodeStart /\ host = HostIdle /\ pump = PumpIdle

NextBlockState == Merge \/ Split

SpecBlockState == InitBlockState /\ [][NextBlockState]_vars

\* A node of a device that is not connected yet.
InitNode ==
  /\ InitPrograms
  /\ settle = [p \in Progs |-> FALSE]
  /\ nodesOf = [p \in Progs |-> {}]
  /\ tree = TreeIdle
  /\ segment = SegmentIdle
  /\ blockState = BlockStateIdle
  /\ node = NodeStart /\ host = HostIdle /\ pump = PumpIdle

NextNode ==
  \/ NodeConnect
  \/ NodeDisconnect
  \/ NodeConfigureRead
  \/ NodeConfigureLock
  \/ NodeConfigureWritten
  \/ NodeRead
  \/ NodeReadReturn
  \/ \E v \in NodeValues : NodeWrite(v)
  \/ NodeWriteLock
  \/ NodeWritten

SpecNode == InitNode /\ [][NextNode]_vars

\* A host with its chips and no draft.
InitHost == InitNode

NextHost ==
  \/ \E d \in DraftIds : HostCreateDraft(d)
  \/ \E c \in Chips, d \in DraftIds : HostStartPlan(c, d)

SpecHost == InitHost /\ [][NextHost]_vars

\* A pump device before its first connection attempt.
InitPump == InitHost

NextPump ==
  \/ \E found \in BOOLEAN : PumpFind(found)
  \/ \E statusOk, fresh, volumeOk \in BOOLEAN : PumpConfigure(statusOk, fresh, volumeOk)
  \/ PumpLost
  \/ PumpClosed
  \/ PumpRetry
  \/ \E n \in PumpNodes : PumpWrite(n)

SpecPump == InitPump /\ [][NextPump]_vars

----------------------------------------------------------------------------
\* Properties

\* The candidate of the deepest applied item among a node's candidates.
RECURSIVE DeepestApplied(_, _)
DeepestApplied(a, k) ==
  IF k = 0 THEN NoCand
  ELSE LET rest == DeepestApplied(a, k - 1)
       IN IF applied[a[k].item] /\ (rest = NoCand \/ itemDepth[a[k].item] > itemDepth[rest.item])
          THEN a[k] ELSE rest

\* C1: for every node with a non-empty candidate list, current_candidate is the
\* candidate of the deepest item among the candidates whose item is applied, and
\* is absent only if no candidate's item is applied.
C1_PriorityOrdering ==
  \A n \in Nodes :
    candidates[n] # <<>> =>
      current[n] = DeepestApplied(candidates[n], Len(candidates[n]))

\* C2: an outer settling State block sets a node to 1 and contains an inner
\* settling State block that sets the same node to 2; neither is paused, resumed
\* or halted.  When the outer program has terminated the values written to the
\* node are exactly 1, 2, 1.
C2_NestedWrites ==
  \A n \in Nodes :
    ( /\ settle[1] /\ settle[2]
      /\ n \in nodesOf[1] \cap nodesOf[2]
      /\ ~received[1] /\ ~received[2]
      /\ mode[1] = "Terminated" )
    => writes[n] = <<BlockValue(1), BlockValue(2), BlockValue(1)>>

\* C3: when the deepest applied item holding a node is suspended while a
\* shallower item with a candidate on the same node stays applied, the suspend
\* wakes the node's write loop through update_event (so that the shallower
\* item's value is written again).
C3_SuspendFallsBack ==
  [][\A p \in Progs : \A n \in Nodes :
       ( /\ applied[p] /\ ~applied'[p] /\ p \in items'
         /\ current[n].item = p
         /\ \E k \in 1..Len(candidates'[n]) :
              /\ candidates'[n][k].item # p
              /\ applied'[candidates'[n][k].item] )
       => updateEvent'[n] = "set"]_vars

\* s is an initial part of t.
IsPrefix(s, t) == Len(s) <= Len(t) /\ \A k \in 1..Len(s) : s[k] = t[k]

\* a is directly followed by b somewhere in s.
HasAdj(s, a, b) == \E k \in 1..(Len(s) - 1) : s[k] = a /\ s[k + 1] = b

\* m occurs in s.
Occurs(s, m) == \E k \in 1..Len(s) : s[k] = m

SettleRunModes == <<"ApplyingState", "Normal", "SuspendingState", "Terminated">>

\* C4: a State program with settle = true that receives no pause, resume or
\* halt goes through the modes ApplyingState, Normal, SuspendingState,
\* Terminated in that order and through no other mode, and its child is created
\* only in mode Normal, after apply has resolved with the item applied and settled.
C4_SettleRunOrder ==
  \A p \in Progs :
    (settle[p] /\ ~received[p]) =>
      /\ IsPrefix(modeLog[p], SettleRunModes)
      /\ childAt[p] # "unsettled"
      /\ (childAt[p] = "settled") = (Len(modeLog[p]) >= 2)

C4_Witness ==
  \E p \in Progs :
    /\ settle[p] /\ ~received[p]
    /\ modeLog[p] = SettleRunModes
    /\ childAt[p] = "settled"

\* C5: for every State program, also one with settle = false whose item was
\* never applied, when its child returns while the mode is neither
\* HaltingChildWhilePaused nor Paused, suspend is called and completes, remove
\* is called and the program reaches Terminated.
C5_ChildReturnTerminates ==
  [][\A p \in Progs :
       (runPc[p] = "child" /\ runPc'[p] # "child" /\ SuspendNeeded(mode[p]))
       => /\ mode'[p] = "Terminated"
          /\ SubSeq(modeLog'[p], Len(modeLog[p]) + 1, Len(modeLog'[p]))
               = <<"SuspendingState", "Terminated">>
          /\ suspendCalls'[p] = suspendCalls[p] + 1
          /\ removeCalls'[p] = removeCalls[p] + 1
          /\ runPc'[p] = "done"]_vars

\* C6: a pause of a State program in mode Normal moves it through PausingChild,
\* then PausingState, then Paused, with no other mode in between; suspend has no
\* suspension point, so the program is never left in PausingState; and the item
\* is unapplied when Paused is reached.
C6_PauseOrder ==
  \A p \in Progs :
    /\ mode[p] # "PausingState"
    /\ \A k \in 1..Len(modeLog[p]) :
         /\ modeLog[p][k] = "PausingChild" =>
              /\ k > 1 /\ modeLog[p][k - 1] = "Normal"
              /\ k < Len(modeLog[p]) => modeLog[p][k + 1] = "PausingState"
         /\ modeLog[p][k] = "PausingState" =>
              /\ k > 1 /\ modeLog[p][k - 1] = "PausingChild"
              /\ k < Len(modeLog[p]) => modeLog[p][k + 1] = "Paused"
    /\ (mode[p] = "Paused" /\ pausePc[p] = "idle" /\ resumePc[p] = "idle")
         => ~applied[p]

\* The modes appended to p's log in the current step, with the one before them.
ResumeStepOK(p) ==
  \A j \in (Len(modeLog[p]) + 1)..Len(modeLog'[p]) :
    LET log == modeLog'[p]
    IN /\ log[j] = "Resuming" => (j > 1 /\ log[j - 1] = "Paused")
       /\ (j > 1 /\ log[j - 1] = "Resuming") =>
            CASE log[j] = "Paused" -> (j = Len(log) => ~applied'[p])
              [] log[j] = "ResumingState" -> (settle[p] \/ ~resumeLoose'[p])
              [] log[j] = "Normal" -> ~(settle[p] \/ ~resumeLoose'[p])
              [] OTHER -> FALSE
       /\ log[j] = "ResumingState" => (j > 1 /\ log[j - 1] = "Resuming")
       /\ (j > 1 /\ log[j - 1] = "ResumingState" /\ log[j] = "Normal") =>
            (applied'[p] /\ settleEvent'[p])

HaltModes == {"HaltingChildThenState", "HaltingChildWhilePaused"}

\* C8 (as stated): a halted State program passes through HaltingState before it
\* reaches Terminated.
C8_ThroughHaltingState ==
  \A p \in Progs :
    ( /\ mode[p] = "Terminated"
      /\ \E m \in HaltModes : Occurs(modeLog[p], m) )
    => Occurs(modeLog[p], "HaltingState")

\* C8: a halt moves a State program from Normal to HaltingChildThenState or from
\* Paused to HaltingChildWhilePaused and halts the child; after the child has
\* returned the program goes from HaltingChildThenState through SuspendingState
\* to Terminated and from HaltingChildWhilePaused straight to Terminated; the
\* mode HaltingState is never entered.
C8_HaltPath ==
  /\ \A p \in Progs : \A k \in 1..Len(modeLog[p]) :
       /\ modeLog[p][k] # "HaltingState"
       /\ modeLog[p][k] = "HaltingChildThenState" =>
            /\ k > 1 /\ modeLog[p][k - 1] = "Normal"
            /\ k < Len(modeLog[p]) => modeLog[p][k + 1] = "SuspendingState"
            /\ k + 1 < Len(modeLog[p]) => modeLog[p][k + 2] = "Terminated"
       /\ modeLog[p][k] = "HaltingChildWhilePaused" =>
            /\ k > 1 /\ modeLog[p][k - 1] = "Paused"
            /\ k < Len(modeLog[p]) => modeLog[p][k + 1] = "Terminated"
  /\ mode[LastProg] \in HaltModes => leaf \in {"halting", "done"}

C8_Witness ==
  /\ \E p \in Progs : /\ mode[p] = "Terminated"
                      /\ HasAdj(modeLog[p], "HaltingChildThenState", "SuspendingState")
  /\ leaf = "done"

\* What holds in every state of a program halted while Paused.
HaltWhilePausedState(p) ==
  \A k \in 1..Len(modeLog[p]) :
    modeLog[p][k] = "HaltingChildWhilePaused" =>
      /\ ~Occurs(SubSeq(modeLog[p], k, Len(modeLog[p])), "SuspendingState")
      /\ Len(modeLog[p]) <= k + 1
      /\ Len(modeLog[p]) = k + 1 => modeLog[p][k + 1] = "Terminated"
      /\ ~applied[p]
      /\ removeCalls[p] = (IF mode[p] = "Terminated" THEN 1 ELSE 0)

\* C9: a State program halted while Paused goes HaltingChildWhilePaused then
\* Terminated without entering SuspendingState and without another call of
\* suspend (the item stays suspended), and remove is called exactly once.
C9_HaltWhilePaused ==
  /\ [](\A p \in Progs : HaltWhilePausedState(p))
  /\ [][\A p \in Progs :
          Occurs(modeLog[p], "HaltingChildWhilePaused") =>
            suspendCalls'[p] = suspendCalls[p]]_vars

C9_Witness ==
  \E p \in Progs :
    /\ HasAdj(modeLog[p], "HaltingChildWhilePaused", "Terminated")
    /\ mode[p] = "Terminated"
    /\ removeCalls[p] = 1

\* The transitions declared for the State block: its run sequence and its
\* pause, resume and halt paths.
DeclaredTransitions ==
  { <<"ApplyingState", "Normal">>, <<"SuspendingState", "Terminated">>,
    <<"Paused", "Terminated">>, <<"HaltingChildWhilePaused", "Terminated">>,
    <<"Normal", "PausingChild">>, <<"PausingChild", "PausingState">>,
    <<"PausingState", "Paused">>,
    <<"Paused", "Resuming">>, <<"Resuming", "Paused">>,
    <<"Resuming", "ResumingState">>, <<"Resuming", "Normal">>,
    <<"ResumingState", "Normal">>,
    <<"Normal", "HaltingChildThenState">>, <<"Paused", "HaltingChildWhilePaused">>,
    <<"HaltingChildThenState", "HaltingState">>,
    <<"HaltingChildWhilePaused", "HaltingState">>,
    <<"HaltingState", "Terminated">> }
  \cup { <<m, "SuspendingState">> :
           m \in {"ApplyingState", "Normal", "PausingChild", "PausingState", "Resuming",
                  "ResumingState", "HaltingChildThenState", "HaltingState"} }

ApplyReturns(p) == applyWait[p] # 0 /\ applyWait'[p] = 0

\* C12: at the moment apply returns, every item on the chain from the origin
\* item to the root is settled.
C12_ApplyReturnsSettled ==
  [][\A p \in Progs : ApplyReturns(p) => FirstUnset(Cur, p) = 0]_vars

\* The turn in which suspend is called for the applied item of handle h.
SuspendsApplied(h) ==
  /\ suspendCalls'[h] = suspendCalls[h] + 1
  /\ h \in items
  /\ applied[h]

\* C13: suspend on an applied item leaves the item not applied, its settle
\* event cleared and the settled flag of its namespace entry false.
C13_SuspendClears ==
  [][\A h \in Progs :
       SuspendsApplied(h) =>
         /\ ~applied'[h]
         /\ ~settleEvent'[h]
         /\ entry'[h] # "settled"]_vars

C13_Witness ==
  \E h \in Progs :
    /\ suspendCalls[h] >= 1
    /\ h \in items
    /\ mode[h] = "Paused"
    /\ ~applied[h]
    /\ ~settleEvent[h]
    /\ entry[h] = "unsettled"
    /\ \E n \in Nodes : current[n].item = h /\ nodeSettled[n]

\* The turn in which remove is called for handle h.
Removes(h) == removeCalls'[h] = removeCalls[h] + 1

\* C14: after remove(handle) the handle has no item, no candidate list contains
\* the item, the item is not among its parent's children, and no node whose
\* current candidate belonged to the item was left without a current candidate
\* while a candidate of an applied item remained.
C14_RemoveReselects ==
  /\ [][\A h \in Progs :
          Removes(h) =>
            /\ h \notin items'
            /\ \A n \in Nodes : \A k \in 1..Len(candidates'[n]) :
                 candidates'[n][k].item # h
            /\ \A i \in Progs : \A k \in 1..Len(itemChildren'[i]) :
                 itemChildren'[i][k] # h]_vars
  /\ [](unselected = {})

\* C15: an item is settled (its settle event is set) exactly when its namespace
\* entry exists and has settled = true.
C15_SettledIffEntries ==
  \A i \in Progs : settleEvent[i] <=> entry[i] = "settled"

C15_Witness ==
  \E i \in items :
    /\ applied[i]
    /\ settleEvent[i]
    /\ entry[i] = "settled"
    /\ suspendCalls[i] >= 1

\* C16: between the apply that marks an item applied and the next suspend, the
\* settle event of the item changes at most once, from not settled to settled.
C16_SettlesOnce ==
  \A i \in Progs :
    applied[i] => /\ toggles[i] <= 1
                  /\ toggles[i] = 1 => settleEvent[i]

C16_Witness ==
  \E i \in items :
    /\ applied[i]
    /\ toggles[i] = 1
    /\ settleEvent[i]
    /\ suspendCalls[i] >= 1
    /\ \E n \in Nodes : current[n].item = i /\ Len(writes[n]) >= 2

\* C17: an item is reported settled only when, for every node whose current
\* candidate belongs to it, the last write that completed on the node wrote
\* that candidate's value.
C17_SettledAfterOwnWrite ==
  \A i \in items :
    settleEvent[i] =>
      \A n \in Nodes : current[n].item = i => lastDone[n] = current[n].value

\* The turn in which the first node.write of n's task returns while the node is
\* disconnected.
WriteReturnsDisconnected(n) ==
  /\ task[n] = "write"
  /\ task'[n] \in {"race", "dead"}
  /\ ~connected[n]
  /\ ~nodeSettled[n]

\* C18: when the node is disconnected at the time of the write, the node is not
\* marked settled and the item holding it is not settled.
C18_DisconnectedNotSettled ==
  [][\A n \in Nodes :
       WriteReturnsDisconnected(n) =>
         /\ ~nodeSettled'[n]
         /\ current[n] # NoCand => ~settleEvent'[current[n].item]]_vars

C20_CancelDestroysClaim ==
  \A n \in Nodes :
    task[n] = "cancelled" /\ cancelledAt[n] \in {"waitclaim", "write", "race"}
      => claim[n] = "destroyed"

C20_Witness ==
  \E n \in Nodes :
    /\ task[n] = "cancelled"
    /\ cancelledAt[n] = "write"
    /\ claim[n] = "destroyed"

----------------------------------------------------------------------------
\* Sibling items on one node

\* Position of handle h in the order of the add calls (0 = never added).
AddedAt(h) ==
  IF h \in SeqRange(tree.added)
  THEN CHOOSE k \in 1..Len(tree.added) : tree.added[k] = h ELSE 0

\* a and b are items with the same parent item, a added before b, both applied,
\* and no applied item lies below them.
AppliedSiblings(a, b) ==
  /\ a \in tree.items /\ b \in tree.items /\ a # b
  /\ tree.itemParent[a] = tree.itemParent[b]
  /\ AddedAt(a) < AddedAt(b)
  /\ tree.applied[a] /\ tree.applied[b]
  /\ \A d \in tree.items : tree.applied[d] => tree.itemDepth[d] <= tree.itemDepth[a]

\* While both siblings are applied the node's current candidate is the one of
\* the sibling added last, and so is the value last written once the node's
\* task has nothing left to write.
SiblingLastWins ==
  \A a, b \in Handles :
    AppliedSiblings(a, b) =>
      /\ tree.current[TreeNode].item = b
      /\ tree.task[TreeNode] = "race" =>
            /\ tree.writes[TreeNode] # <<>>
            /\ tree.writes[TreeNode][Len(tree.writes[TreeNode])] = b

\* The removal of the sibling added last leaves the node with the other one.
SiblingFallsBack ==
  \A a, b \in Handles :
    (AppliedSiblings(a, b) /\ tree'.last = [op |-> "remove", handle |-> b])
      => tree'.current[TreeNode].item = a

\* C21: when two sibling items added in the order A, B set the same node and
\* both are applied, the node's current candidate and the value finally written
\* are B's; when B is removed the node falls back to A's value.
C21_SiblingOrder == [](SiblingLastWins) /\ [][SiblingFallsBack]_vars

----------------------------------------------------------------------------
\* Order of the candidate lists

\* C27: in every node's candidate list the candidate of an item comes before
\* the candidate of each of its descendants, after any sequence of add and
\* remove calls, also when unrelated siblings have candidates on the node.
C27_CandidatesOrdered ==
  \A n \in Nodes : \A j, k \in 1..Len(tree.candidates[n]) :
    j < k => ~ItemLt(tree, tree.candidates[n][k].item, tree.candidates[n][j].item)

----------------------------------------------------------------------------
\* Parent and depth of a new item

RECURSIVE NearestItem(_, _)
\* The first handle of the sequence hs that has an item (0 = none has).
NearestItem(T, hs) ==
  IF hs = <<>> THEN 0
  ELSE IF Head(hs) \in T.items THEN Head(hs)
  ELSE NearestItem(T, Tail(hs))

\* An add call for handle h is the step taken.
Adds(h) == tree'.last = [op |-> "add", handle |-> h] /\ h \notin tree.items

\* C28: add registers an item whose parent is the item of the nearest strict
\* ancestor handle that has one, or none when no ancestor handle has an item,
\* whatever number of item-less handles lies in between, and whose depth is the
\* parent's depth plus one, or 0 without parent.
C28_AddLinksNearest ==
  [][\A h \in Handles :
       Adds(h) =>
         LET par == NearestItem(tree, HandleAncestors(h))
         IN /\ tree'.error = "none"
            /\ h \in tree'.items
            /\ tree'.itemParent[h] = par
            /\ tree'.itemDepth[h] = IF par = 0 THEN 0 ELSE tree.itemDepth[par] + 1]_vars

----------------------------------------------------------------------------
\* Segment program: pause, halt, resume

\* Since the pause was accepted: PausingProcess and no suspend before the first
\* stopped process event; afterwards PausingState while the state suspends,
\* then Paused with exactly one suspend and a last event (Paused, stopped).
PauseState ==
  segment.message = "pause" =>
    IF ~segment.stoppedSince
    THEN segment.mode = "PausingProcess" /\ segment.suspends = 0
    ELSE \/ segment.mode = "PausingState" /\ segment.suspends = 0
         \/ /\ segment.mode = "Paused" /\ segment.suspends = 1
            /\ segment.emitted.mode = "Paused" /\ segment.emitted.stopped

\* PausingState is entered from PausingProcess and left for Paused, and the
\* step that reaches Paused yields an event with mode Paused and stopped.
PauseSteps ==
  /\ (segment.mode # "PausingState" /\ segment'.mode = "PausingState")
        => segment.mode = "PausingProcess"
  /\ (segment.mode = "PausingState" /\ segment'.mode # "PausingState")
        => /\ segment'.mode = "Paused"
           /\ segment'.yields = segment.yields + 1
           /\ segment'.emitted.mode = "Paused" /\ segment'.emitted.stopped
  /\ (segment.mode # "Paused" /\ segment'.mode = "Paused")
        => segment.mode = "PausingState"

HaltState ==
  (segment.message = "halt" /\ segment.messageIn = "Normal") =>
    IF ~segment.stoppedSince
    THEN segment.mode = "Halting" /\ segment.asked = "halt"
    ELSE /\ segment.mode = "Halted"
         /\ segment.emitted.mode = "Halted" /\ segment.emitted.stopped

\* Halted is entered from Halting by the handling of a stopped process event,
\* which yields a stopped event.
HaltSteps ==
  (segment.mode # "Halted" /\ segment'.mode = "Halted")
    => /\ segment.mode = "Halting"
       /\ segment'.events = segment.events + 1
       /\ segment'.lastStopped = "stopped"
       /\ segment'.yields = segment.yields + 1
       /\ segment'.emitted.mode = "Halted" /\ segment'.emitted.stopped

ResumeState ==
  segment.message = "resume" =>
    IF ~segment.runningSince
    THEN segment.mode = "Paused" /\ segment.applies = 0 /\ ~segment.applied
    ELSE segment.mode = "Normal" /\ segment.applies = 1

\* The step back to Normal handles a process event that is not stopped, applies
\* the state once and yields mode Normal with the location apply returned.
ResumeSteps ==
  (/\ segment.message = "resume" /\ segment'.message = "resume"
   /\ segment.mode = "Paused" /\ segment'.mode # "Paused")
    => /\ segment'.mode = "Normal"
       /\ segment'.events = segment.events + 1
       /\ segment'.lastStopped = "running"
       /\ segment'.applies = 1 /\ segment'.applied
       /\ segment'.yields = segment.yields + 1
       /\ segment'.emitted = [mode |-> "Normal", stopped |-> FALSE, state |-> "reapplied"]

\* C24: after resume() is accepted in Paused the program returns to Normal on
\* the next process event that is not stopped; during that transition the
\* state instance is applied again, with resume = true, exactly once, and the
\* emitted event carries mode Normal and the re-applied state location.
C24_ResumePath == [](ResumeState) /\ [][ResumeSteps]_vars

C24_Witness ==
  segment.message = "resume" /\ segment.mode = "Normal" /\ segment.applies = 1

----------------------------------------------------------------------------
\* Merge and split of block states

\* C25: s | null = s and null | s = s; for two block states over the same
\* namespaces a | b takes, per namespace, b's entry when it is not null and
\* a's entry otherwise.
C25_MergeLaws ==
  blockState.op = "or" =>
    LET a == blockState.a
        b == blockState.b
        out == blockState.out
    IN /\ (~a.null /\ b.null) => (out.error = "none" /\ out.first = a)
       /\ (a.null /\ ~b.null) => (out.error = "none" /\ out.first = b)
       /\ (~a.null /\ ~b.null) =>
            /\ out.error = "none"
            /\ \A ns \in Namespaces :
                 out.first.entries[ns] =
                   IF ~b.entries[ns].null THEN b.entries[ns] ELSE a.entries[ns]

\* C26: for block states a (outer) and b (inner) over the same namespaces, with
\* any entries null, a & b returns (a', b') where b' keeps all of b's node
\* values and a' keeps exactly the node values of a whose path b does not set.
C26_SplitKeepsInner ==
  (blockState.op = "and" /\ ~blockState.a.null /\ ~blockState.b.null) =>
    LET a == blockState.a.entries["devices"]
        b == blockState.b.entries["devices"]
        out == blockState.out
    IN /\ out.error = "none"
       /\ \A n \in Nodes :
            /\ out.second.entries["devices"].values[n] = b.values[n]
            /\ out.first.entries["devices"].values[n] =
                 IF b.values[n] # 0 THEN 0 ELSE a.values[n]

----------------------------------------------------------------------------
\* Values written and values selected

RECURSIVE IsSubseq(_, _)
\* s is an order-preserving subsequence of t.
IsSubseq(s, t) ==
  IF s = <<>> THEN TRUE
  ELSE IF t = <<>> THEN FALSE
  ELSE IF Head(s) = Head(t) THEN IsSubseq(Tail(s), Tail(t))
  ELSE IsSubseq(s, Tail(t))

\* A write that starts carries the value current_candidate has at that moment.
WriteCarriesCurrent ==
  \A n \in Nodes :
    writes'[n] # writes[n] =>
      /\ current[n] # NoCand
      /\ writes'[n] = Append(writes[n], current[n].value)

WritesFollowSelection == \A n \in Nodes : IsSubseq(writes[n], assigned[n])

\* C30: every write issued by a node-lifecycle task carries the value of the
\* node's current_candidate at the time the write starts, so the values written
\* to one node are an order-preserving subsequence of the values successively
\* assigned to that node's current_candidate.
C30_WritesFollowCandidate == [][WriteCarriesCurrent]_vars /\ [](WritesFollowSelection)

RECURSIVE Collapse(_)
\* s without the immediate repetitions of a value.
Collapse(s) ==
  IF Len(s) <= 1 THEN s
  ELSE IF s[1] = s[2] THEN Collapse(Tail(s))
  ELSE <<s[1]>> \o Collapse(Tail(s))

\* C30, amended: every write carries the value of current_candidate at the time
\* the write starts; the values written to one node, without the immediate
\* repetitions that re-writes after a regained claim produce, are an
\* order-preserving subsequence of the values assigned to current_candidate.
C30_WritesFollowCandidateAmended ==
  /\ [][WriteCarriesCurrent]_vars
  /\ [](\A n \in Nodes : IsSubseq(Collapse(writes[n]), assigned[n]))

C30_Witness == \E n \in Nodes : Len(writes[n]) >= 2 /\ Len(assigned[n]) >= 2

----------------------------------------------------------------------------
\* One state-manager operation per handle

\* state_manager.suspend(h) is entered in the step taken.
SuspendEntered(h) == suspendCalls'[h] > suspendCalls[h]

\* state_manager.remove(h) is entered in the step taken.
RemoveEntered(h) == removeCalls'[h] > removeCalls[h]

\* The apply call of program h is awaiting a settle event before and after the
\* step taken.
ApplyInProgress(h) == applyWait[h] # 0 /\ applyWait'[h] # 0

\* An earlier suspend has unapplied the item of h, which was not applied since.
AlreadySuspended(h) == h \in items /\ ~applied[h] /\ suspendCalls[h] > 0

\* The item of h has been removed.
AlreadyRemoved(h) == h \notin items /\ removeCalls[h] > 0

\* C29: for each handle at most one of add, apply, suspend and remove is in
\* progress at any time, however run, child completion and tear-down
\* interleave with the pause, resume and halt handlers; in particular suspend is
\* never entered for an item that a concurrent pause or tear-down has already
\* suspended or removed.
C29_OneOperationPerHandle ==
  [][\A h \in Progs :
       /\ ApplyInProgress(h) => ~SuspendEntered(h) /\ ~RemoveEntered(h)
       /\ SuspendEntered(h) => ~AlreadySuspended(h) /\ ~AlreadyRemoved(h)]_vars

----------------------------------------------------------------------------
\* Release of the claim after the final removal

\* The node's last candidate is gone while a lifecycle task exists for it.
FinalRemoval(n) == candidates[n] = <<>> /\ task[n] # "none"

\* The node's task has ended and its claim is released.
Released(n) == task[n] \in {"dead", "cancelled"} /\ claim[n] = "destroyed"

\* C31: after the last candidate of a node has been removed the node's
\* lifecycle task ends and the node's claim is eventually released.
C31_FinalRemovalReleases ==
  \A n \in Nodes : [](FinalRemoval(n) => <>Released(n))

\* C32: a settled record reaches the program only at a consumer notification
\* that changes item.settled: no update callback carries the settled value the
\* item already had before the notification.
C32_RecordOnlyOnChange == \A i \in Progs : lastRecord[i] # "same"

\* Neither the handle nor any handle above it has an item.
NoItemAbove(h) == TreeOrigin(tree, h) = 0
\* apply(h, terminal=True) has just been called.
AppliesTerminal(h) == tree'.last = [op |-> "applyCall", handle |-> h] /\ tree' # tree
\* C33: apply(handle, terminal=True) with no item for the handle or any handle
\* above it returns without raising, reaches no consumer and leaves every
\* item's applied flag, every candidate list, every current candidate and every
\* node task as they were.
C33_TerminalApplyNoItem ==
  [][\A h \in Handles :
       (AppliesTerminal(h) /\ NoItemAbove(h)) =>
         /\ tree'.error = "none"
         /\ tree'.consumer = "none"
         /\ tree'.applied = tree.applied
         /\ tree'.items = tree.items
         /\ tree'.candidates = tree.candidates
         /\ tree'.current = tree.current
         /\ tree'.updatedNodes = tree.updatedNodes
         /\ tree'.task = tree.task]_vars
C33_Witness ==
  /\ tree.last.op = "applyCall" /\ TreeOrigin(tree, tree.last.handle) = 0
  /\ tree.updatedNodes # {} /\ tree.removed # {}

\* C34: the driver's _read never runs twice at the same time and is never
\* started while the node is disconnected.
C34_ReadExclusive == node.reads <= 1 /\ ~node.offline

Last(s) == s[Len(s)]
\* The modes with which a pause, resume or halt handler ends.
EndsHandler(log) ==
  \/ Last(log) \in {"Paused", "HaltingChildThenState", "HaltingChildWhilePaused"}
  \/ Len(log) >= 2 /\ Last(log) = "Normal"
       /\ log[Len(log) - 1] \in {"Resuming", "ResumingState"}
\* A pause, resume or halt handler of p finishes in this step, normally or by
\* raising.
HandlerFinishes(p) ==
  \/ Len(modeLog'[p]) > Len(modeLog[p]) /\ EndsHandler(modeLog'[p])
  \/ pausePc'[p] = "raised" /\ pausePc[p] # "raised"
  \/ resumePc'[p] = "raised" /\ resumePc[p] # "raised"
\* C35: when a pause, resume or halt handler of a State program has finished,
\* normally or by raising, the mode in the last location it sent is its current
\* mode; after a resume that failed because the parent could not be resumed the
\* last location sent shows Paused.
C35_SentModeCurrent ==
  [][\A p \in Progs : HandlerFinishes(p) => sent'[p] = mode'[p]]_vars

\* The number of items above an item.
ItemAncestorCount(h) == Len(Ancestors(tree, h)) - 1
\* The number of times h occurs in a children list.
Occurrences(list, h) == Cardinality({k \in 1..Len(list) : list[k] = h})
\* C36: every registered item has a parent that is null or a registered item
\* whose children list contains it exactly once, every entry of a children
\* list is a registered item, and the depth of an item is the number of its
\* ancestor items.
C36_ItemTreeConsistent ==
  \A h \in tree.items :
    /\ tree.itemParent[h] # 0 =>
         /\ tree.itemParent[h] \in tree.items
         /\ Occurrences(tree.itemChildren[tree.itemParent[h]], h) = 1
    /\ \A k \in 1..Len(tree.itemChildren[h]) : tree.itemChildren[h][k] \in tree.items
    /\ tree.itemDepth[h] = ItemAncestorCount(h)

\* C37: the calls to the state instance of a Segment program alternate between
\* apply and suspend, starting with the apply of run: suspend is never called
\* on an instance that is not applied, apply never on an applied one, and the
\* instance is not applied when run has completed.
C37_ApplySuspendAlternate ==
  /\ ~segment.misuse
  /\ segment.pc = "done" => ~segment.applied
\* After a jump that restarted the process, a pause has suspended the state,
\* a resume has applied it again and run has completed.
C37_Witness ==
  /\ segment.restarts >= 1 /\ segment.message = "resume"
  /\ segment.applies = 1 /\ segment.pc = "done" /\ ~segment.applied

\* pause or resume has just been called on p outside the mode it acts in.
CalledOutOfMode(p) ==
  /\ lastCall' # lastCall
  /\ lastCall'.prog = p
  /\ \/ lastCall'.op = "pause" /\ mode[p] # "Normal"
     \/ lastCall'.op = "resume" /\ mode[p] # "Paused"
\* Nothing of the programs, the state manager, the nodes or the leaf changes.
ProgramUntouched ==
  /\ mode' = mode /\ modeLog' = modeLog /\ sent' = sent /\ received' = received
  /\ pausePc' = pausePc /\ resumePc' = resumePc /\ runPc' = runPc /\ leaf' = leaf
  /\ suspendCalls' = suspendCalls /\ removeCalls' = removeCalls
  /\ items' = items /\ applied' = applied /\ settleEvent' = settleEvent
  /\ entry' = entry /\ lastRecord' = lastRecord /\ applyWait' = applyWait
  /\ candidates' = candidates /\ current' = current /\ updatedNodes' = updatedNodes
  /\ task' = task /\ writes' = writes
\* C38: pause(loose=true) outside Normal and resume(loose=true) outside Paused
\* return without changing the mode, sending an event, calling the state
\* manager or the child; with loose=false they raise AssertionError and leave
\* the mode unchanged as well.
C38_OutOfModeCallsIgnored ==
  [][\A p \in Progs :
       CalledOutOfMode(p) =>
         /\ ProgramUntouched
         /\ lastCall'.res = IF lastCall'.loose THEN "returned" ELSE "AssertionError"]_vars
\* A loose resume has returned from a program that is pausing its child.
C38_Witness ==
  /\ lastCall.op = "resume" /\ lastCall.loose /\ lastCall.res = "returned"
  /\ mode[lastCall.prog] = "PausingChild"

\* startPlan has just been refused because the chip has a master.
RefusedStart ==
  host'.error = "Already running" /\ host'.last.type = "startPlan" /\ host' # host
\* C39: start_plan on a chip that has a master raises and leaves chip.master
\* and the drafts map as they are; a successful start_plan sets chip.master and
\* removes the draft; so a chip gets at most one master and no draft starts
\* two plans.
C39_OnePlanPerChipAndDraft ==
  /\ [][RefusedStart => (host'.master = host.master /\ host'.drafts = host.drafts
                           /\ host.master[host'.last.chip] # NoDraft)]_vars
  /\ [][\A c \in Chips :
          host'.master[c] # host.master[c] =>
            /\ host.master[c] = NoDraft
            /\ host.drafts[host'.master[c].id] = host'.master[c].nr
            /\ host'.drafts[host'.master[c].id] = 0]_vars
  /\ [](\A c \in Chips : host.masters[c] <= 1)
  /\ [](\A c1, c2 \in Chips :
          (c1 # c2 /\ host.master[c1] # NoDraft) => host.master[c1] # host.master[c2])
\* Both chips run a plan, the second one started from a draft created again
\* under the id of the first, and a further startPlan has been refused.
C39_Witness ==
  /\ \A c \in Chips : host.master[c] # NoDraft
  /\ \E c1, c2 \in Chips : c1 # c2 /\ host.master[c1].id = host.master[c2].id
  /\ host.error = "Already running"
  /\ \E d \in DraftIds : host.drafts[d] # 0

\* C40: whenever the pump device or one of its nodes reports connected, the
\* device handle is present, and no node write runs against a missing device.
C40_ConnectedHasDevice ==
  /\ (pump.connected \/ \E n \in PumpNodes : pump.nodeConnected[n]) => pump.device
  /\ pump.lastWrite.res # "AssertionError"

====
